---------------------------- MODULE Spec2Model ----------------------------
(***************************************************************************)
(* Captcha resolution engine of antsniper (src/src/captcha.py):            *)
(*   - CircuitBreaker            (captcha.py 136-179)                      *)
(*   - CapSolverHandler          (captcha.py 182-277)                      *)
(*   - EnhancedCaptchaSolver     (captcha.py 282-863: validate, clean,     *)
(*                                solve in race and sequential mode)       *)
(* Strings are modelled as sequences of one-character strings.  Time is    *)
(* an integer clock `now` (time.time()) advanced by Tick.                  *)
(***************************************************************************)
EXTENDS Integers, Sequences, FiniteSets, TLC

VARIABLES
    now,              \* time.time()
    circuit_breaker,  \* CapSolverHandler.circuit_breaker (a CircuitBreaker object)
    lastOp,           \* name of the most recent step (the call just made)
    ret,              \* return value of the most recent is_open() call
    prev,             \* the breaker as it was before the most recent breaker call
    consec,           \* record_failure() calls since the last record_success()
    cfg,              \* solver configuration: mode, ocr engine, capsolver.enabled,
                      \* Config.PARALLEL_SOLVING_ENABLED
    pc,               \* where the current solve() call stands
    image,            \* len(image_bytes) of the current solve() call
    futures,          \* the two tasks submitted to the ThreadPoolExecutor
    consumed,         \* futures as_completed has yielded so far, in order
    result,           \* (code, status) returned by solve()
    calls,            \* per solve(): solver invocations and network requests
    enhanced,         \* what _preprocess_image did and returned in this solve()
    response,         \* what the remote service answered to the last request
    rpc,              \* where the current solve_form_captcha_with_retry call stands
    rargs,            \* its arguments max_attempts and session_age
    rloc,             \* its locals and those of the solve_from_page it runs
    sfp_ret,          \* (success, code, status) returned by solve_from_page
    retry_ret,        \* (success, code, status) returned by the retry call
    counts,           \* per retry call: rounds, image captures, solve() calls,
                      \* manual requests, reload_captcha calls, fill errors
    accepted,         \* the first accepted solve() result of the retry call
    mpc,              \* where the current _process_month_page call stands
    mloc,             \* its locals attempt and consecutive_failures
    page_state,       \* what the month page shows (as _analyze_page_state reads it)
    wrong_run,        \* answers the server has reported wrong in a row, with no
                      \* accepted answer and no cooldown since
    slept,            \* the last return of _process_month_page followed time.sleep(120)
    session,          \* the SessionState of one browser context
    sprev,            \* the session as it was before the most recent session call
    incidents,        \* incident types the incident manager has recorded, in order
    vret,             \* return value of the most recent validate_session_health
    iprev,            \* the incidents as they were before the most recent session call
    expired_before,   \* the session has been expired at some moment so far
    vargs,            \* the location of the most recent validate_session_health,
                      \* whether the page showed it a captcha and whether the
                      \* marker it looks for at that location was present
    pre_solved,       \* the pre-solve cache: _pre_solved_code, _pre_solved_time,
                      \* _pre_solved_status
    got,              \* what the most recent read of the pre-solve cache returned
    displayed,        \* number of the captcha the page displays
    stored,           \* the most recent pre_solve that cached a code: the code, the
                      \* time, the captcha displayed, and whether the cache has
                      \* been cleared since
    wpc,              \* where each session worker stands in its record_failure call
    wtmp,             \* the self.failures value each worker has loaded for its += 1
    wseen,            \* the breaker as each worker left it at the end of its last call
    issued,           \* record_failure calls the workers have started
    successes,        \* record_success calls the workers have made
    vinput,           \* the str handed to validate_captcha_result
    vout,             \* the (is_valid, status) it returned
    probe_failed,   \* the last record_failure/record_success was a record_failure on a HALF-OPEN breaker
    run_at_sleep,     \* the run of server-reported wrong answers when time.sleep(120) was last called
    tpc,              \* where solve_booking_captcha_turbo stands: idle, loop, returned
    tattempt,         \* the loop variable attempt of solve_booking_captcha_turbo
    tret,             \* what solve_booking_captcha_turbo returned
    tlast,            \* what the last iteration of the turbo loop did
    tinjects,         \* codes written into the input field in this call
    tsubmits,         \* clicks on the submit button in this call
    sniper,           \* the EliteSniperV2 engine: mode, run_mode and its solver
    sniper_prev,      \* the engine before the last set_mode call
    set_arg,          \* the name the last set_mode call was given
    set_ret           \* what the last set_mode call returned

cbVars == <<circuit_breaker, ret, prev, consec>>
solveVars == <<cfg, pc, image, futures, consumed, result, calls, enhanced, response>>
retryVars == <<rpc, rargs, rloc, sfp_ret, retry_ret, counts, accepted>>
monthVars == <<mpc, mloc, page_state, wrong_run, slept>>
sessionVars == <<session, sprev, incidents, vret, iprev, expired_before, vargs>>
cacheVars == <<pre_solved, got, displayed, stored>>
workerVars == <<wpc, wtmp, wseen, issued, successes>>
validateVars == <<vinput, vout>>
probeVars == <<probe_failed>>
coolVars == <<run_at_sleep>>
turboVars == <<tpc, tattempt, tret, tlast, tinjects, tsubmits>>
modeVars == <<sniper, sniper_prev, set_arg, set_ret>>
vars == <<now, lastOp, cbVars, solveVars, retryVars, monthVars, sessionVars, cacheVars, workerVars, validateVars, probeVars, coolVars, turboVars, modeVars>>

-----------------------------------------------------------------------------
(* Bounds of the model *)

MaxTime == 6          \* the clock runs over 0..MaxTime
MaxThreshold == 3     \* thresholds 1..MaxThreshold are configured
MaxTimeout == 2       \* cooldowns 1..MaxTimeout are configured
MaxFailures == 5      \* record_failure is not called beyond this count
\* the same four bounds where a whole solver runs around the breaker
SolveMaxTime == 3
SolveMaxThreshold == 2
SolveMaxTimeout == 1
SolveMaxFailures == 3

MaxAttemptsArg == 3   \* callers pass max_attempts in 0..MaxAttemptsArg
MaxRounds == MaxAttemptsArg + 1   \* attempts explored of one retry call

MaxWrongRun == 7      \* no answer is submitted beyond this run of wrong answers

SessionClockStep == 100   \* the session clock advances in steps of this many seconds
SessionMaxClock == 400    \* and runs over 0..SessionMaxClock
SessionMaxIdle == 200     \* Config.SESSION_MAX_IDLE of the modelled deployment
SessionMaxFailures == 3   \* Config.MAX_CONSECUTIVE_ERRORS of the modelled deployment
MaxIncidents == 2         \* incidents recorded before validation is no longer explored
\* the pre-solve cache is followed in steps of CacheClockStep seconds over
\* 0..CacheMaxClock, on a page that shows up to MaxChallenges captchas after
\* the first
CacheClockStep == 15
CacheMaxClock == 60
MaxChallenges == 2
\* NumWorkers session workers start up to MaxIssued record_failure calls
NumWorkers == 2
MaxIssued == 3
\* validate_captcha_result is applied to strings of up to MaxCodeLen characters
MaxCodeLen == 9

-----------------------------------------------------------------------------
(* CircuitBreaker *)

\* CircuitBreaker.__init__
CircuitBreaker(th, to) ==
    [threshold |-> th, timeout |-> to, failures |-> 0,
     last_failure_time |-> 0, state |-> "CLOSED"]

\* a record_failure that opens only above the threshold
record_failure_late(cb, t) ==
    LET n == cb.failures + 1
    IN  [cb EXCEPT !.failures = n,
                   !.last_failure_time = t,
                   !.state = IF n > cb.threshold THEN "OPEN" ELSE @]

\* a record_failure that stamps the time of the failure on a CLOSED breaker only
record_failure_stale_time(cb, t) ==
    LET n == cb.failures + 1
    IN  [cb EXCEPT !.failures = n,
                   !.last_failure_time = IF cb.state = "CLOSED" THEN t ELSE @,
                   !.state = IF n >= cb.threshold THEN "OPEN" ELSE @]

\* CircuitBreaker.record_failure
record_failure(cb, t) ==
    LET n == cb.failures + 1
    IN  [cb EXCEPT !.failures = n,
                   !.last_failure_time = t,
                   !.state = IF n >= cb.threshold THEN "OPEN" ELSE @]

\* a record_success that resets the counter and leaves the state alone
record_success_keep_state(cb) ==
    IF cb.failures > 0
    THEN [cb EXCEPT !.failures = 0]
    ELSE cb

\* CircuitBreaker.record_success
record_success(cb) ==
    IF cb.failures > 0
    THEN [cb EXCEPT !.failures = 0, !.state = "CLOSED"]
    ELSE cb

\* an is_open that never looks at the cooldown
is_open_no_timeout(cb, t) ==
    IF cb.state = "CLOSED"
    THEN [ret |-> FALSE, cb |-> cb]
    ELSE [ret |-> TRUE, cb |-> cb]

\* CircuitBreaker.is_open: the value returned and the breaker after the call
is_open(cb, t) ==
    IF cb.state = "CLOSED"
    THEN [ret |-> FALSE, cb |-> cb]
    ELSE LET elapsed == t - cb.last_failure_time
         IN  IF elapsed > cb.timeout
             THEN IF cb.state = "OPEN"
                  THEN [ret |-> FALSE, cb |-> [cb EXCEPT !.state = "HALF-OPEN"]]
                  ELSE [ret |-> FALSE, cb |-> cb]
             ELSE [ret |-> TRUE, cb |-> cb]

-----------------------------------------------------------------------------
(* Strings: a str is a sequence of one-character strings; an Optional[str]  *)
(* is a record that is either None or holds a str.                          *)

None == [none |-> TRUE, s |-> <<>>]
Str(s) == [none |-> FALSE, s |-> s]
\* Python truthiness of an Optional[str]: None and "" are falsy
Truthy(v) == ~v.none /\ Len(v.s) > 0

\* characters str.strip() removes (those of the model's alphabet)
Whitespace == {" ", "\t", "\n"}

LowerCase == <<"a","b","c","d","e","f","g","h","i","j","k","l","m",
               "n","o","p","q","r","s","t","u","v","w","x","y","z">>
UpperCase == <<"A","B","C","D","E","F","G","H","I","J","K","L","M",
               "N","O","P","Q","R","S","T","U","V","W","X","Y","Z">>
Digits == <<"0","1","2","3","4","5","6","7","8","9">>

SeqRange(q) == {q[i] : i \in 1..Len(q)}

\* str.lower() on one character
LowerChar(c) ==
    IF c \in SeqRange(UpperCase)
    THEN LowerCase[CHOOSE i \in 1..Len(UpperCase) : UpperCase[i] = c]
    ELSE c

\* str.lower()
lower(s) == [i \in 1..Len(s) |-> LowerChar(s[i])]

RECURSIVE lstrip(_)
lstrip(s) ==
    IF s # <<>> /\ Head(s) \in Whitespace THEN lstrip(Tail(s)) ELSE s

RECURSIVE rstrip(_)
rstrip(s) ==
    IF s # <<>> /\ s[Len(s)] \in Whitespace
    THEN rstrip(SubSeq(s, 1, Len(s) - 1))
    ELSE s

\* str.strip()
strip(s) == rstrip(lstrip(s))

\* str.replace(" ", "")
remove_spaces(s) == SelectSeq(s, LAMBDA c : c # " ")

\* allowed_chars of _clean_ocr_result
allowed_chars == SeqRange(LowerCase) \cup SeqRange(UpperCase) \cup SeqRange(Digits)

\* EnhancedCaptchaSolver._clean_ocr_result
_clean_ocr_result(text) ==
    IF text = <<>>
    THEN <<>>
    ELSE SelectSeq(remove_spaces(strip(text)), LAMBDA c : c \in allowed_chars)

\* black_patterns of validate_captcha_result
black_patterns ==
    { <<"4","3","3","3">>, <<"3","3","3">>, <<"4","4","4">>,
      <<"1","1","1","1">>, <<"0","0","0","0">>, <<"4","4","4","4">>,
      <<"3","3","3","3">> }

\* validate_captcha_result has not been called
NotValidated == [is_valid |-> FALSE, status |-> ""]

\* a validate_captcha_result that knows the listed black patterns only
validate_captcha_result_listed_only(code) ==
    IF ~Truthy(code)
    THEN [is_valid |-> FALSE, status |-> "EMPTY"]
    ELSE LET c == remove_spaces(strip(code.s))
             code_len == Len(c)
         IN  IF c \in black_patterns
             THEN [is_valid |-> FALSE, status |-> "BLACK_DETECTED"]
             ELSE IF code_len < 4
             THEN [is_valid |-> FALSE, status |-> "TOO_SHORT"]
             ELSE IF code_len = 6
             THEN [is_valid |-> TRUE, status |-> "VALID"]
             ELSE IF code_len = 7
             THEN [is_valid |-> TRUE, status |-> "AGING_7"]
             ELSE IF code_len = 8
             THEN [is_valid |-> TRUE, status |-> "AGING_8"]
             ELSE IF code_len > 8
             THEN [is_valid |-> FALSE, status |-> "TOO_LONG"]
             ELSE [is_valid |-> FALSE, status |-> "TOO_SHORT"]

\* a validate_captcha_result that takes two distinct characters for a black pattern too
validate_captcha_result_two_chars_black(code) ==
    IF ~Truthy(code)
    THEN [is_valid |-> FALSE, status |-> "EMPTY"]
    ELSE LET c == remove_spaces(strip(code.s))
             code_len == Len(c)
             is_all_same == Cardinality(SeqRange(c)) \in {1, 2}
         IN  IF c \in black_patterns \/ is_all_same
             THEN [is_valid |-> FALSE, status |-> "BLACK_DETECTED"]
             ELSE IF code_len < 4
             THEN [is_valid |-> FALSE, status |-> "TOO_SHORT"]
             ELSE IF code_len = 6
             THEN [is_valid |-> TRUE, status |-> "VALID"]
             ELSE IF code_len = 7
             THEN [is_valid |-> TRUE, status |-> "AGING_7"]
             ELSE IF code_len = 8
             THEN [is_valid |-> TRUE, status |-> "AGING_8"]
             ELSE IF code_len > 8
             THEN [is_valid |-> FALSE, status |-> "TOO_LONG"]
             ELSE [is_valid |-> FALSE, status |-> "TOO_SHORT"]

\* a validate_captcha_result that takes every code of more than 6 characters as too long
validate_captcha_result_six_only(code) ==
    IF ~Truthy(code)
    THEN [is_valid |-> FALSE, status |-> "EMPTY"]
    ELSE LET c == remove_spaces(strip(code.s))
             code_len == Len(c)
             is_all_same == Cardinality(SeqRange(c)) = 1
         IN  IF c \in black_patterns \/ is_all_same
             THEN [is_valid |-> FALSE, status |-> "BLACK_DETECTED"]
             ELSE IF code_len < 4
             THEN [is_valid |-> FALSE, status |-> "TOO_SHORT"]
             ELSE IF code_len = 6
             THEN [is_valid |-> TRUE, status |-> "VALID"]
             ELSE IF code_len > 6
             THEN [is_valid |-> FALSE, status |-> "TOO_LONG"]
             ELSE [is_valid |-> FALSE, status |-> "TOO_SHORT"]

\* a validate_captcha_result that accepts 4 and 5 characters as a format variant
validate_captcha_result_five_ok(code) ==
    IF ~Truthy(code)
    THEN [is_valid |-> FALSE, status |-> "EMPTY"]
    ELSE LET c == remove_spaces(strip(code.s))
             code_len == Len(c)
             is_all_same == Cardinality(SeqRange(c)) = 1
         IN  IF c \in black_patterns \/ is_all_same
             THEN [is_valid |-> FALSE, status |-> "BLACK_DETECTED"]
             ELSE IF code_len < 4
             THEN [is_valid |-> FALSE, status |-> "TOO_SHORT"]
             ELSE IF code_len = 6
             THEN [is_valid |-> TRUE, status |-> "VALID"]
             ELSE IF code_len = 7
             THEN [is_valid |-> TRUE, status |-> "AGING_7"]
             ELSE IF code_len = 8
             THEN [is_valid |-> TRUE, status |-> "AGING_8"]
             ELSE IF code_len > 8
             THEN [is_valid |-> FALSE, status |-> "TOO_LONG"]
             ELSE [is_valid |-> TRUE, status |-> "VALID"]

\* EnhancedCaptchaSolver.validate_captcha_result on an Optional[str]
validate_captcha_result(code) ==
    IF ~Truthy(code)
    THEN [is_valid |-> FALSE, status |-> "EMPTY"]
    ELSE LET c == remove_spaces(strip(code.s))
             code_len == Len(c)
             is_all_same == Cardinality(SeqRange(c)) = 1
         IN  IF c \in black_patterns \/ is_all_same
             THEN [is_valid |-> FALSE, status |-> "BLACK_DETECTED"]
             ELSE IF code_len < 4
             THEN [is_valid |-> FALSE, status |-> "TOO_SHORT"]
             ELSE IF code_len = 6
             THEN [is_valid |-> TRUE, status |-> "VALID"]
             ELSE IF code_len = 7
             THEN [is_valid |-> TRUE, status |-> "AGING_7"]
             ELSE IF code_len = 8
             THEN [is_valid |-> TRUE, status |-> "AGING_8"]
             ELSE IF code_len > 8
             THEN [is_valid |-> FALSE, status |-> "TOO_LONG"]
             ELSE [is_valid |-> FALSE, status |-> "TOO_SHORT"]


-----------------------------------------------------------------------------
(* CapSolverHandler *)

\* what requests.post / response.json() can produce
Resp(kind, status_code, errorId, status, text) ==
    [kind |-> kind, status_code |-> status_code, errorId |-> errorId,
     status |-> status, text |-> text]

NoResponse == Resp("none", 0, 0, "", None)

\* texts the remote service answers with
RemoteTexts ==
    { Str(<<"a","b","1","2","c","d">>),          \* 6 characters
      Str(<<"x","y","-","1","2","3","z">>),      \* 6 after cleaning
      Str(<<"a","b","1","2","c">>),              \* 5 characters
      Str(<<"4","4","4","4","4","4">>),          \* one repeated character
      Str(<<>>) }                                \* ready, empty text

Responses ==
    { Resp("timeout", 0, 0, "", None),           \* requests.post raises Timeout
      Resp("exception", 0, 0, "", None),         \* any other exception
      Resp("bad_json", 200, 0, "", None),        \* response.json() raises
      Resp("ok", 500, 0, "", None),              \* HTTP error
      Resp("ok", 200, 1, "", None),              \* errorId != 0
      Resp("ok", 200, 0, "processing", None) }   \* status not ready
    \cup { Resp("ok", 200, 0, "ready", t) : t \in RemoteTexts }

Out(code, status, cb, net) ==
    [code |-> code, status |-> status, cb |-> cb, net |-> net]

\* a solve_image_to_text that forgets the breaker on a non-ready status
solve_image_to_text_no_record(enabled, cb, r, t) ==
    IF ~enabled
    THEN Out(None, "DISABLED", cb, 0)
    ELSE IF is_open(cb, t).ret
    THEN Out(None, "CIRCUIT_OPEN", is_open(cb, t).cb, 0)
    ELSE LET cb1 == is_open(cb, t).cb
         IN  IF r.kind \in {"timeout", "exception", "bad_json"}
             THEN Out(None, "EXCEPTION", record_failure(cb1, t), 1)
             ELSE IF r.status_code # 200
             THEN Out(None, "HTTP_ERROR", record_failure(cb1, t), 1)
             ELSE IF r.errorId # 0
             THEN Out(None, "API_ERROR", record_failure(cb1, t), 1)
             ELSE IF r.status = "ready"
             THEN Out(r.text, "SUCCESS", record_success(cb1), 1)
             ELSE Out(None, "STATUS_NOT_READY", cb1, 1)

\* a solve_image_to_text that never reports a success to the breaker
solve_image_to_text_no_success(enabled, cb, r, t) ==
    IF ~enabled
    THEN Out(None, "DISABLED", cb, 0)
    ELSE IF is_open(cb, t).ret
    THEN Out(None, "CIRCUIT_OPEN", is_open(cb, t).cb, 0)
    ELSE LET cb1 == is_open(cb, t).cb
         IN  IF r.kind \in {"timeout", "exception", "bad_json"}
             THEN Out(None, "EXCEPTION", record_failure(cb1, t), 1)
             ELSE IF r.status_code # 200
             THEN Out(None, "HTTP_ERROR", record_failure(cb1, t), 1)
             ELSE IF r.errorId # 0
             THEN Out(None, "API_ERROR", record_failure(cb1, t), 1)
             ELSE IF r.status = "ready"
             THEN Out(r.text, "SUCCESS", cb1, 1)
             ELSE Out(None, "STATUS_NOT_READY", record_failure(cb1, t), 1)

\* a solve_image_to_text that sends the request before asking the breaker
solve_image_to_text_no_gate(enabled, cb, r, t) ==
    IF ~enabled
    THEN Out(None, "DISABLED", cb, 0)
    ELSE IF is_open(cb, t).ret
    THEN Out(None, "CIRCUIT_OPEN", is_open(cb, t).cb, 1)
    ELSE LET cb1 == is_open(cb, t).cb
         IN  IF r.kind \in {"timeout", "exception", "bad_json"}
             THEN Out(None, "EXCEPTION", record_failure(cb1, t), 1)
             ELSE IF r.status_code # 200
             THEN Out(None, "HTTP_ERROR", record_failure(cb1, t), 1)
             ELSE IF r.errorId # 0
             THEN Out(None, "API_ERROR", record_failure(cb1, t), 1)
             ELSE IF r.status = "ready"
             THEN Out(r.text, "SUCCESS", record_success(cb1), 1)
             ELSE Out(None, "STATUS_NOT_READY", record_failure(cb1, t), 1)

\* a solve_image_to_text that counts a ready answer the validator rejects as
\* a failure
solve_image_to_text_validated(enabled, cb, r, t) ==
    IF ~enabled
    THEN Out(None, "DISABLED", cb, 0)
    ELSE IF is_open(cb, t).ret
    THEN Out(None, "CIRCUIT_OPEN", is_open(cb, t).cb, 0)
    ELSE LET cb1 == is_open(cb, t).cb
         IN  IF r.kind \in {"timeout", "exception", "bad_json"}
             THEN Out(None, "EXCEPTION", record_failure(cb1, t), 1)
             ELSE IF r.status_code # 200
             THEN Out(None, "HTTP_ERROR", record_failure(cb1, t), 1)
             ELSE IF r.errorId # 0
             THEN Out(None, "API_ERROR", record_failure(cb1, t), 1)
             ELSE IF r.status = "ready"
             THEN IF validate_captcha_result(Str(_clean_ocr_result(r.text.s))).is_valid
                  THEN Out(r.text, "SUCCESS", record_success(cb1), 1)
                  ELSE Out(r.text, "SUCCESS", record_failure(cb1, t), 1)
             ELSE Out(None, "STATUS_NOT_READY", record_failure(cb1, t), 1)

\* CapSolverHandler.solve_image_to_text: the (code, status) returned, the
\* breaker after the call and the number of requests sent.  HTTP_ERROR,
\* API_ERROR and STATUS_NOT_READY stand for the f-strings HTTP_<code>,
\* API_<errorCode> and STATUS_<status>.
solve_image_to_text(enabled, cb, r, t) ==
    IF ~enabled
    THEN Out(None, "DISABLED", cb, 0)
    ELSE IF is_open(cb, t).ret
    THEN Out(None, "CIRCUIT_OPEN", is_open(cb, t).cb, 0)
    ELSE LET cb1 == is_open(cb, t).cb
         IN  IF r.kind \in {"timeout", "exception", "bad_json"}
             THEN Out(None, "EXCEPTION", record_failure(cb1, t), 1)
             ELSE IF r.status_code # 200
             THEN Out(None, "HTTP_ERROR", record_failure(cb1, t), 1)
             ELSE IF r.errorId # 0
             THEN Out(None, "API_ERROR", record_failure(cb1, t), 1)
             ELSE IF r.status = "ready"
             THEN Out(r.text, "SUCCESS", record_success(cb1), 1)
             ELSE Out(None, "STATUS_NOT_READY", record_failure(cb1, t), 1)

-----------------------------------------------------------------------------
(* EnhancedCaptchaSolver *)

\* size below which detect_black_captcha reports a black captcha
BlackSize == 2000

\* EnhancedCaptchaSolver.detect_black_captcha
detect_black_captcha(len) == len < BlackSize

\* image sizes the page driver delivers
ImageSizes == {1999, 2000}

\* how the enhancement goes: OpenCV is not installed, the pipeline runs, or
\* one of its calls raises
PreprocessOutcomes == {"no_opencv", "ok", "raised"}

NotEnhanced == [outcome |-> "none", bytes |-> "none"]

\* EnhancedCaptchaSolver._preprocess_image: the bytes returned; an exception
\* of the pipeline is caught and the raw image is returned
_preprocess_image(p) ==
    IF p = "no_opencv"
    THEN [outcome |-> p, bytes |-> "raw"]
    ELSE IF p = "raised"
    THEN [outcome |-> p, bytes |-> "raw"]
    ELSE [outcome |-> p, bytes |-> "enhanced"]

\* what ocr.classification can produce: a text, or an exception
OcrOutputs ==
    { [raised |-> FALSE, text |-> <<" ","P","Q","7","8"," ","R","S">>],  \* 6 after cleanup
      [raised |-> FALSE, text |-> <<"m","n","o","p","q","r","s">>],      \* 7 characters
      [raised |-> FALSE, text |-> <<"m","n","5">>],                      \* 3 characters
      [raised |-> FALSE, text |-> <<>>],
      [raised |-> TRUE,  text |-> <<>>] }

\* a _solve_local_ocr without its try/except: the exception of
\* ocr.classification leaves the call (status RAISED stands for that)
_solve_local_ocr_uncaught(o) ==
    IF o.raised
    THEN [code |-> <<>>, status |-> "RAISED"]
    ELSE LET r == _clean_ocr_result(lower(strip(remove_spaces(o.text))))
         IN  [code |-> r, status |-> validate_captcha_result(Str(r)).status]

\* EnhancedCaptchaSolver._solve_local_ocr: the (result, status) returned;
\* an exception of ocr.classification is caught and becomes ("", "ERROR")
_solve_local_ocr(o) ==
    IF o.raised
    THEN [code |-> <<>>, status |-> "ERROR"]
    ELSE LET r == _clean_ocr_result(lower(strip(remove_spaces(o.text))))
         IN  [code |-> r, status |-> validate_captcha_result(Str(r)).status]


NoFuture == [st |-> "none", code |-> None, status |-> ""]
NoFutures == [capsolver |-> NoFuture, local |-> NoFuture]
NoResult == [code |-> <<>>, status |-> "NONE"]
NoCalls == [remote |-> 0, net |-> 0, local |-> 0]
Running == [st |-> "running", code |-> None, status |-> ""]
Done(code, status) == [st |-> "done", code |-> code, status |-> status]
Returned(code, status) == [pc |-> "returned", result |-> [code |-> code, status |-> status]]

AllDone(fs) == \A f \in DOMAIN fs : fs[f].st = "done"

\* the test solve() applies to a finished task's (result_code, result_status)
\* in the race: truthy code, a success status, and the cleaned code validates
IsWinner(fut) ==
    /\ Truthy(fut.code)
    /\ fut.status \in {"SUCCESS", "VALID", "AGING_7", "AGING_8"}
    /\ validate_captcha_result(Str(_clean_ocr_result(fut.code.s))).is_valid

\* a race that gives up when the first finished task is not a winner
race_next_first_only(fs, seen, f) ==
    IF IsWinner(fs[f])
    THEN [pc |-> IF AllDone(fs) THEN "returned" ELSE "shutdown",
          result |-> [code |-> _clean_ocr_result(fs[f].code.s),
                      status |-> fs[f].status]]
    ELSE Returned(<<>>, "ALL_FAILED")

\* solve(), race mode: one iteration of `for future in as_completed(futures)`
\* on the finished future f, `seen` being the futures already iterated.
\* A winner leaves through `return` inside the `with` block, whose exit is
\* executor.shutdown(wait=True): solve() returns at once only if no task is
\* still running.  After the last iteration without winner the second loop
\* finds every future done and solve() returns ALL_FAILED.
race_next(fs, seen, f) ==
    IF IsWinner(fs[f])
    THEN [pc |-> IF AllDone(fs) THEN "returned" ELSE "shutdown",
          result |-> [code |-> _clean_ocr_result(fs[f].code.s),
                      status |-> fs[f].status]]
    ELSE IF Len(seen) + 1 < Cardinality(DOMAIN fs)
    THEN [pc |-> "race", result |-> NoResult]
    ELSE Returned(<<>>, "ALL_FAILED")

\* solve(), sequential mode, PRIORITY 1: what follows the CapSolver call
seq_capsolver(out) ==
    IF /\ Truthy(out.code)
       /\ out.status = "SUCCESS"
       /\ validate_captcha_result(Str(_clean_ocr_result(out.code.s))).is_valid
    THEN Returned(_clean_ocr_result(out.code.s), "CAPSOLVER")
    ELSE [pc |-> "seq_local", result |-> NoResult]

\* solve(): the handler of its outer try, reached by any exception raised
\* between the black-image check and the last return
solve_except == Returned(<<>>, "ERROR")

\* solve(), sequential mode, PRIORITY 2: what follows the local OCR call
seq_local(r) ==
    IF r.status = "RAISED"
    THEN solve_except
    ELSE IF r.status \in {"VALID", "AGING_7", "AGING_8"}
    THEN Returned(r.code, r.status)
    ELSE Returned(<<>>, "ALL_FAILED")

\* solve() up to the choice of strategy
solve_entry(c, len) ==
    IF c.mode = "MANUAL"
    THEN Returned(<<>>, "MANUAL_REQUIRED")
    ELSE IF ~c.ocr
    THEN Returned(<<>>, "NO_OCR")
    ELSE IF detect_black_captcha(len)
    THEN Returned(<<>>, "BLACK_IMAGE")
    ELSE IF c.parallel /\ c.capsolver_enabled /\ c.ocr
    THEN [pc |-> "race", result |-> NoResult]
    ELSE IF c.capsolver_enabled
    THEN [pc |-> "seq_capsolver", result |-> NoResult]
    ELSE [pc |-> "seq_local", result |-> NoResult]


-----------------------------------------------------------------------------
(* EnhancedCaptchaSolver.solve_from_page and solve_form_captcha_with_retry *)

\* max_attempts the retry loop runs with in MANUAL mode
ManualMaxAttempts == 1000

\* session_age above which the retry loop gives up
SessionAgeCeiling == 1800

\* internal_max_retries of solve_from_page
InternalMaxRetries == 3

\* (success, code, status) as solve_from_page and the retry loop return it
Ret(success, code, status) == [success |-> success, code |-> code, status |-> status]

NoRet == Ret(FALSE, None, "NONE")
NoArgs == [max_attempts |-> 0, session_age |-> 0]
NoLocals == [max_attempts |-> 0, attempt |-> 0, internal_attempt |-> 0,
             code |-> None, status |-> ""]
NoCounts == [rounds |-> 0, captures |-> 0, solves |-> 0, manuals |-> 0,
             reloads |-> 0, no_engine |-> 0, fill_errors |-> 0]
NotAccepted == [set |-> FALSE, code |-> <<>>, status |-> "", at |-> NoCounts]

\* the results solve() returns to solve_from_page under configuration c:
\* the result of its entry checks, or what the sequential strategies return
solve_returns(c) ==
    IF solve_entry(c, BlackSize).pc = "returned"
    THEN {solve_entry(c, BlackSize).result}
    ELSE {solve_entry(c, BlackSize - 1).result}
         \cup {seq_local(_solve_local_ocr(o)).result : o \in OcrOutputs}
         \cup (IF c.capsolver_enabled
               THEN {seq_capsolver([code |-> t, status |-> "SUCCESS"]).result :
                        t \in {x \in RemoteTexts :
                                  seq_capsolver([code |-> x, status |-> "SUCCESS"]).pc
                                     = "returned"}}
               ELSE {})

\* a code the pre-solve cache may hold, and what the operator may answer
PreSolved == {None, Str(<<"p","r","e","1","2","3">>)}
ManualAnswers == {None, Str(<<"m","a","n","1","2","3">>)}

\* statuses of solve() that solve_from_page treats as a failed OCR
SkipStatuses == {"TOO_SHORT", "TOO_LONG", "NO_OCR", "MANUAL_REQUIRED"}

\* solve_from_page up to the internal loop: the captcha check, the input
\* field, the pre-solved code
sfp_start(check, input_visible, pre) ==
    IF check = "failed"
    THEN [pc |-> "sfp_returned", ret |-> Ret(FALSE, None, "CHECK_FAILED"),
          code |-> None, status |-> ""]
    ELSE IF check = "no_captcha"
    THEN [pc |-> "sfp_returned", ret |-> Ret(TRUE, None, "NO_CAPTCHA"),
          code |-> None, status |-> ""]
    ELSE IF ~input_visible
    THEN [pc |-> "sfp_returned", ret |-> Ret(FALSE, None, "NO_INPUT"),
          code |-> None, status |-> ""]
    ELSE IF Truthy(pre)
    THEN [pc |-> "sfp_fill", ret |-> NoRet, code |-> pre, status |-> "VALID"]
    ELSE [pc |-> "sfp_image", ret |-> NoRet, code |-> pre, status |-> "VALID"]

\* solve_from_page, internal loop: what follows `code, status = self.solve()`
\* on iteration internal_attempt, r being the (code, status) of solve()
sfp_after_solve(c, internal_attempt, r) ==
    IF c.mode = "AUTO"
    THEN IF r.status = "TOO_SHORT" /\ internal_attempt < InternalMaxRetries - 1
         THEN [pc |-> "sfp_image", ret |-> NoRet, reloads |-> 1,
               internal_attempt |-> internal_attempt + 1]
         ELSE IF ~Truthy(Str(r.code)) \/ r.status \in SkipStatuses
         THEN [pc |-> "sfp_returned",
               ret |-> Ret(FALSE, None, "AUTO_SKIP_" \o r.status),
               reloads |-> 0, internal_attempt |-> internal_attempt]
         ELSE [pc |-> "sfp_fill", ret |-> NoRet, reloads |-> 0,
               internal_attempt |-> internal_attempt]
    ELSE [pc |-> "sfp_manual", ret |-> NoRet, reloads |-> 0,
          internal_attempt |-> internal_attempt]

\* solve_from_page, internal loop in HYBRID and MANUAL mode: what follows
\* request_manual_solution.  An answer replaces the code and the loop goes
\* on to its next iteration; no answer ends solve_from_page.
sfp_after_manual(l, manual_code) ==
    IF Truthy(manual_code)
    THEN [pc |-> IF l.internal_attempt + 1 < InternalMaxRetries
                 THEN "sfp_image" ELSE "sfp_fill",
          ret |-> NoRet, code |-> manual_code, status |-> "MANUAL",
          internal_attempt |-> l.internal_attempt + 1]
    ELSE [pc |-> "sfp_returned", ret |-> Ret(FALSE, None, "MANUAL_TIMEOUT"),
          code |-> l.code, status |-> l.status,
          internal_attempt |-> l.internal_attempt]

\* solve_from_page: page.fill and the return that follows
sfp_fill(l, fill_ok) ==
    IF fill_ok
    THEN Ret(TRUE, l.code, l.status)
    ELSE Ret(FALSE, None, "FILL_ERROR")

\* solve_form_captcha_with_retry: the attempt limit of its loop
attempt_limit(c, max_attempts) ==
    IF c.mode = "MANUAL" THEN ManualMaxAttempts ELSE max_attempts

\* a retry loop that reloads after its last attempt too
retry_step_reload_last(max_attempts, attempt, session_age, r, ack) ==
    IF r.success /\ Truthy(r.code)
    THEN [pc |-> "returned", ret |-> Ret(TRUE, r.code, r.status), reloads |-> 0]
    ELSE IF session_age > SessionAgeCeiling /\ attempt < max_attempts - 1
    THEN [pc |-> "returned", ret |-> Ret(FALSE, None, "SESSION_TOO_OLD"),
          reloads |-> 0]
    ELSE IF ~ack
    THEN [pc |-> "returned", ret |-> Ret(FALSE, None, "RELOAD_FAILED"),
          reloads |-> 1]
    ELSE IF attempt + 1 < max_attempts
    THEN [pc |-> "attempt", ret |-> NoRet, reloads |-> 1]
    ELSE [pc |-> "returned", ret |-> Ret(FALSE, None, "MAX_ATTEMPTS_REACHED"),
          reloads |-> 1]

\* a retry loop without the session age check
retry_step_no_age(max_attempts, attempt, session_age, r, ack) ==
    IF r.success /\ Truthy(r.code)
    THEN [pc |-> "returned", ret |-> Ret(TRUE, r.code, r.status), reloads |-> 0]
    ELSE IF attempt < max_attempts - 1
    THEN IF ~ack
         THEN [pc |-> "returned", ret |-> Ret(FALSE, None, "RELOAD_FAILED"),
               reloads |-> 1]
         ELSE [pc |-> "attempt", ret |-> NoRet, reloads |-> 1]
    ELSE [pc |-> "returned", ret |-> Ret(FALSE, None, "MAX_ATTEMPTS_REACHED"),
          reloads |-> 0]

\* a retry loop that allows one attempt more than its limit
retry_step_one_more(max_attempts, attempt, session_age, r, ack) ==
    IF r.success /\ Truthy(r.code)
    THEN [pc |-> "returned", ret |-> Ret(TRUE, r.code, r.status), reloads |-> 0]
    ELSE IF attempt < max_attempts
    THEN IF session_age > SessionAgeCeiling
         THEN [pc |-> "returned", ret |-> Ret(FALSE, None, "SESSION_TOO_OLD"),
               reloads |-> 0]
         ELSE IF ~ack
         THEN [pc |-> "returned", ret |-> Ret(FALSE, None, "RELOAD_FAILED"),
               reloads |-> 1]
         ELSE [pc |-> "attempt", ret |-> NoRet, reloads |-> 1]
    ELSE [pc |-> "returned", ret |-> Ret(FALSE, None, "MAX_ATTEMPTS_REACHED"),
          reloads |-> 0]

\* solve_form_captcha_with_retry: the loop body after solve_from_page has
\* returned r on attempt `attempt` (counted from 0), ack being what
\* reload_captcha returns if it is called.  Falling out of the loop after
\* the last attempt returns MAX_ATTEMPTS_REACHED.
retry_step(max_attempts, attempt, session_age, r, ack) ==
    IF r.success /\ Truthy(r.code)
    THEN [pc |-> "returned", ret |-> Ret(TRUE, r.code, r.status), reloads |-> 0]
    ELSE IF attempt < max_attempts - 1
    THEN IF session_age > SessionAgeCeiling
         THEN [pc |-> "returned", ret |-> Ret(FALSE, None, "SESSION_TOO_OLD"),
               reloads |-> 0]
         ELSE IF ~ack
         THEN [pc |-> "returned", ret |-> Ret(FALSE, None, "RELOAD_FAILED"),
               reloads |-> 1]
         ELSE [pc |-> "attempt", ret |-> NoRet, reloads |-> 1]
    ELSE [pc |-> "returned", ret |-> Ret(FALSE, None, "MAX_ATTEMPTS_REACHED"),
          reloads |-> 0]

-----------------------------------------------------------------------------
(* EliteSniperV2._process_month_page (src/src/elite_sniper_v2.py) *)

\* max_attempts of the captcha loop of _process_month_page
MonthMaxAttempts == 5

\* consecutive_failures at which the loop sleeps and gives up
CooldownThreshold == 5

NoMonthLocals == [attempt |-> 0, consecutive_failures |-> 0]

\* the states _analyze_page_state tells apart
PageStates == {"SLOTS_FOUND", "EMPTY_CALENDAR", "WRONG_CODE", "CAPTCHA", "UNKNOWN"}

\* what a month page shows right after page.goto(url): no answer has been
\* submitted on it, so it carries no wrong-answer message
FreshPageStates == PageStates \ {"WRONG_CODE"}

\* what the page shows after an answer has been submitted
SubmittedPageStates == PageStates \ {"CAPTCHA"}

\* _process_month_page, top of one loop iteration on page state st: the
\* counting of a wrong-answer report and what the iteration does next
month_analyze(l, st) ==
    IF st \in {"SLOTS_FOUND", "EMPTY_CALENDAR"}
    THEN [pc |-> "returned", l |-> l, sleep |-> FALSE]
    ELSE IF st = "WRONG_CODE"
    THEN IF l.consecutive_failures + 1 >= CooldownThreshold
         THEN [pc |-> "returned",
               l |-> [l EXCEPT !.consecutive_failures = @ + 1], sleep |-> TRUE]
         ELSE [pc |-> "solve",
               l |-> [l EXCEPT !.consecutive_failures = @ + 1], sleep |-> FALSE]
    ELSE IF st = "CAPTCHA"
    THEN [pc |-> "solve", l |-> l, sleep |-> FALSE]
    ELSE [pc |-> "returned", l |-> l, sleep |-> FALSE]

\* the loop variable after `continue` or the end of the body: the next
\* iteration, or the `return False` behind the loop
month_next(l) ==
    [pc |-> IF l.attempt + 1 < MonthMaxAttempts THEN "analyze" ELSE "returned",
     l |-> [l EXCEPT !.attempt = @ + 1], sleep |-> FALSE]

\* _process_month_page, rest of a WRONG_CODE / CAPTCHA iteration on page
\* state st once solve_from_page has returned `success`
month_solve(l, st, success) ==
    IF ~success
    THEN LET l1 == IF st # "WRONG_CODE"
                   THEN [l EXCEPT !.consecutive_failures = @ + 1]
                   ELSE l
         IN  IF l1.consecutive_failures >= CooldownThreshold
             THEN [pc |-> "returned", l |-> l1, sleep |-> TRUE]
             ELSE month_next(l1)
    ELSE month_next(l)

-----------------------------------------------------------------------------
(* SessionState and EliteSniperV2.validate_session_health / soft_recovery.  *)
(* SessionState lives in src/session_state.py; its methods are written     *)
(* here as the specification of the engine describes them.                  *)

\* max_age every context is created with
SessionMaxAge == 300

\* SessionState(...) as create_context constructs it at time t
SessionState(t) ==
    [health |-> "CLEAN", created_at |-> t, last_activity |-> t,
     failures |-> 0, consecutive_errors |-> 0, captcha_solved |-> FALSE,
     max_age |-> SessionMaxAge, max_idle |-> SessionMaxIdle,
     max_failures |-> SessionMaxFailures]

\* SessionState.age and idle_time at time t
age(s, t) == t - s.created_at
idle_time(s, t) == t - s.last_activity

\* SessionState.is_expired at time t
is_expired(s, t) == age(s, t) > s.max_age \/ idle_time(s, t) > s.max_idle

\* SessionState.should_terminate
should_terminate(s) == s.health = "POISONED" \/ s.failures >= s.max_failures

\* SessionState.touch at time t
touch(s, t) == [s EXCEPT !.last_activity = t]

\* the next health level toward POISONED
Degraded(h) ==
    IF h = "CLEAN" THEN "WARNING"
    ELSE IF h = "WARNING" THEN "DEGRADED"
    ELSE "POISONED"

\* SessionState.increment_failure: one more failure, health one level down,
\* POISONED at max_failures
increment_failure(s) ==
    [s EXCEPT !.failures = @ + 1,
              !.consecutive_errors = @ + 1,
              !.health = IF s.failures + 1 >= s.max_failures
                         THEN "POISONED" ELSE Degraded(s.health)]

\* SessionState.mark_captcha_solved
mark_captcha_solved(s) == [s EXCEPT !.captcha_solved = TRUE]

\* validate_session_health whose double-captcha rule reports without
\* touching the health
validate_session_health_keep_health(s, t, location, has_captcha, lastname_visible, month_form_visible) ==
    IF is_expired(s, t)
    THEN [ret |-> FALSE, session |-> s, incident |-> "SESSION_EXPIRED"]
    ELSE IF should_terminate(s)
    THEN [ret |-> FALSE, session |-> s, incident |-> "SESSION_POISONED"]
    ELSE IF s.captcha_solved /\ has_captcha
    THEN [ret |-> FALSE, session |-> s, incident |-> "DOUBLE_CAPTCHA"]
    ELSE IF location = "POST_SUBMIT" /\ lastname_visible
    THEN [ret |-> FALSE, session |-> s, incident |-> "FORM_REJECTED"]
    ELSE IF location = "FORM" /\ month_form_visible
    THEN [ret |-> FALSE, session |-> s, incident |-> "NONE"]
    ELSE [ret |-> TRUE, session |-> touch(s, t), incident |-> "NONE"]

\* locations validate_session_health is called with: one of the plain ones,
\* after a submit, on the form
Locations == {"SCOUT_MONTH", "POST_SUBMIT", "FORM"}

\* EliteSniperV2.validate_session_health at time t: the value returned, the
\* session afterwards and the incident created ("NONE" if none);
\* has_captcha, lastname_visible and month_form_visible are what the page shows
validate_session_health(s, t, location, has_captcha, lastname_visible, month_form_visible) ==
    IF is_expired(s, t)
    THEN [ret |-> FALSE, session |-> s, incident |-> "SESSION_EXPIRED"]
    ELSE IF should_terminate(s)
    THEN [ret |-> FALSE, session |-> s, incident |-> "SESSION_POISONED"]
    ELSE IF s.captcha_solved /\ has_captcha
    THEN [ret |-> FALSE, session |-> [s EXCEPT !.health = "POISONED"],
          incident |-> "DOUBLE_CAPTCHA"]
    ELSE IF location = "POST_SUBMIT" /\ lastname_visible
    THEN [ret |-> FALSE, session |-> s, incident |-> "FORM_REJECTED"]
    ELSE IF location = "FORM" /\ month_form_visible
    THEN [ret |-> FALSE, session |-> s, incident |-> "NONE"]
    ELSE [ret |-> TRUE, session |-> touch(s, t), incident |-> "NONE"]

\* no validate_session_health call yet
NoValidateArgs ==
    [location |-> "UNKNOWN", has_captcha |-> FALSE, marker_present |-> FALSE]

\* soft_recovery that takes a DEGRADED session straight back to CLEAN
soft_recovery_skip(s, t) ==
    touch([s EXCEPT !.consecutive_errors = 0,
                    !.failures = IF @ - 1 > 0 THEN @ - 1 ELSE 0,
                    !.health = IF @ = "DEGRADED" THEN "CLEAN"
                               ELSE IF @ = "WARNING" THEN "CLEAN"
                               ELSE @], t)

\* EliteSniperV2.soft_recovery at time t
soft_recovery(s, t) ==
    touch([s EXCEPT !.consecutive_errors = 0,
                    !.failures = IF @ - 1 > 0 THEN @ - 1 ELSE 0,
                    !.health = IF @ = "DEGRADED" THEN "WARNING"
                               ELSE IF @ = "WARNING" THEN "CLEAN"
                               ELSE @], t)

-----------------------------------------------------------------------------
(* The pre-solve cache of EnhancedCaptchaSolver: pre_solve, get_pre_solved, *)
(* clear_pre_solved and its use by solve_from_page.                         *)

\* self._pre_solve_timeout, in seconds
PreSolveTimeout == 30

\* the cache after __init__ (solve_from_page reads a missing
\* _pre_solved_status as 'VALID')
NoPreSolved == [code |-> None, time |-> 0, status |-> "VALID"]

\* no pre_solve has cached a code yet
NotStored == [set |-> FALSE, code |-> None, time |-> 0, for |-> 0, cleared |-> FALSE]

\* pre_solve at time t: check is the outcome of safe_captcha_check,
\* image_found that of _get_captcha_image, r what solve() returned
pre_solve(ps, check, image_found, r, t) ==
    IF check = "failed"
    THEN [cache |-> ps, ret |-> Ret(FALSE, None, "CHECK_FAILED")]
    ELSE IF check = "no_captcha"
    THEN [cache |-> ps, ret |-> Ret(TRUE, None, "NO_CAPTCHA")]
    ELSE IF ~image_found
    THEN [cache |-> ps, ret |-> Ret(FALSE, None, "NO_IMAGE")]
    ELSE IF Len(r.code) = 0
    THEN [cache |-> ps, ret |-> Ret(FALSE, None, r.status)]
    ELSE [cache |-> [code |-> Str(r.code), time |-> t, status |-> r.status],
          ret |-> Ret(TRUE, Str(r.code), r.status)]

\* get_pre_solved that takes a code of exactly the timeout's age as expired
get_pre_solved_strict(ps, t) ==
    IF ~Truthy(ps.code)
    THEN [cache |-> ps, ret |-> None]
    ELSE IF t - ps.time >= PreSolveTimeout
    THEN [cache |-> [ps EXCEPT !.code = None], ret |-> None]
    ELSE [cache |-> ps, ret |-> ps.code]

\* get_pre_solved at time t: the cache afterwards and the value returned
get_pre_solved(ps, t) ==
    IF ~Truthy(ps.code)
    THEN [cache |-> ps, ret |-> None]
    ELSE IF t - ps.time > PreSolveTimeout
    THEN [cache |-> [ps EXCEPT !.code = None], ret |-> None]
    ELSE [cache |-> ps, ret |-> ps.code]

\* clear_pre_solved
clear_pre_solved(ps) == [ps EXCEPT !.code = None, !.time = 0]

\* solve_from_page, "Check for pre-solved code first": the code it goes on
\* with and the cache afterwards
sfp_pre_solved(ps, t) ==
    LET g == get_pre_solved(ps, t)
    IN  IF Truthy(g.ret)
        THEN [cache |-> clear_pre_solved(g.cache), code |-> g.ret]
        ELSE [cache |-> g.cache, code |-> g.ret]

-----------------------------------------------------------------------------

(* Session workers of one EliteSniperV2: every worker solves through        *)
(* self.solver, the one EnhancedCaptchaSolver made in __init__, and so      *)
(* through its one CapSolverHandler and CircuitBreaker. record_failure is   *)
(* followed statement by statement, as threads interleave in it.            *)

\* the session workers (worker_id)
Workers == 1..NumWorkers

\* the breaker a worker's session reaches through
\* self.solver.capsolver.circuit_breaker
WorkerBreaker(w) == circuit_breaker

\* record_failure, `self.failures += 1`: the value loaded
rf_load(cb) == cb.failures

\* record_failure, `self.failures += 1`: the store of the loaded value v plus 1
rf_store(cb, v) == [cb EXCEPT !.failures = v + 1]

\* record_failure, `self.last_failure_time = time.time()`
rf_time(cb, t) == [cb EXCEPT !.last_failure_time = t]

\* record_failure, `if self.failures >= self.threshold: self.state = "OPEN"`
rf_check(cb) == [cb EXCEPT !.state = IF cb.failures >= cb.threshold THEN "OPEN" ELSE @]

-----------------------------------------------------------------------------

(* EnhancedCaptchaSolver.solve_booking_captcha_turbo *)

\* max_retries of solve_booking_captcha_turbo
TurboMaxRetries == 15

\* what one iteration has done: nothing yet
NoIteration ==
    [solved |-> FALSE, result |-> <<>>, refresh |-> FALSE, injected |-> FALSE,
     submitted |-> FALSE, done |-> FALSE]

\* what one iteration of the loop meets: the captcha element on the page
\* (missing, without a base64 image, undecodable, or an image), what
\* ocr.classification produces, and whether the page.evaluate of the
\* iteration returns, raises at once, or raises after the input was written
TurboOutcomes ==
    [page : {"no_element", "no_image", "decode_error", "image"},
     ocr : OcrOutputs,
     eval : {"ok", "raised", "raised_after_inject"}]

\* a turbo iteration that refreshes only when the code is shorter than 6
turbo_iteration_six_or_more(o) ==
    IF o.page # "image" \/ o.ocr.raised
    THEN NoIteration
    ELSE LET code == _clean_ocr_result(o.ocr.text)
         IN  IF Len(code) < 6
             THEN [NoIteration EXCEPT !.solved = TRUE, !.result = code,
                                      !.refresh = TRUE]
             ELSE IF o.eval = "ok"
             THEN [NoIteration EXCEPT !.solved = TRUE, !.result = code,
                                      !.injected = TRUE, !.submitted = TRUE,
                                      !.done = TRUE]
             ELSE [NoIteration EXCEPT !.solved = TRUE, !.result = code,
                                      !.injected = (o.eval = "raised_after_inject")]

\* solve_booking_captcha_turbo, the body of one loop iteration: every
\* `continue` and the except handler leave done FALSE, `return True` sets it
turbo_iteration(o) ==
    IF o.page # "image" \/ o.ocr.raised
    THEN NoIteration
    ELSE LET code == _clean_ocr_result(o.ocr.text)
         IN  IF Len(code) # 6
             THEN [NoIteration EXCEPT !.solved = TRUE, !.result = code,
                                      !.refresh = TRUE]
             ELSE IF o.eval = "ok"
             THEN [NoIteration EXCEPT !.solved = TRUE, !.result = code,
                                      !.injected = TRUE, !.submitted = TRUE,
                                      !.done = TRUE]
             ELSE [NoIteration EXCEPT !.solved = TRUE, !.result = code,
                                      !.injected = (o.eval = "raised_after_inject")]

\* solve_booking_captcha_turbo, `for attempt in range(max_retries)`: where
\* the call stands after the iteration `attempt` that did `it`
turbo_next(attempt, it) ==
    IF it.done
    THEN [pc |-> "returned", ret |-> TRUE]
    ELSE IF attempt + 1 < TurboMaxRetries
    THEN [pc |-> "loop", ret |-> FALSE]
    ELSE [pc |-> "returned", ret |-> FALSE]

-----------------------------------------------------------------------------
(* EliteSniperV2.set_mode and the mode flags of EnhancedCaptchaSolver *)

\* str.upper() on one character
UpperChar(c) ==
    IF c \in SeqRange(LowerCase)
    THEN UpperCase[CHOOSE i \in 1..Len(LowerCase) : LowerCase[i] = c]
    ELSE c

\* str.upper()
upper(s) == [i \in 1..Len(s) |-> UpperChar(s[i])]

AUTO == <<"A","U","T","O">>
MANUAL == <<"M","A","N","U","A","L">>
HYBRID == <<"H","Y","B","R","I","D">>

\* valid_modes of set_mode
valid_modes == {AUTO, MANUAL, HYBRID}

\* the names set_mode is called with
ModeNames ==
    valid_modes \cup { <<"a","u","t","o">>, <<"M","a","n","u","a","l">>,
                       <<"T","U","R","B","O">>, <<>> }

\* EnhancedCaptchaSolver.__init__: the mode and the two flags derived from it
EnhancedCaptchaSolver(mode) ==
    [mode |-> upper(mode),
     manual_only |-> (upper(mode) = MANUAL),
     auto_only |-> (upper(mode) = AUTO)]

\* EliteSniperV2.__init__ with Config.EXECUTION_MODE = mode
EliteSniperV2(run_mode, mode) ==
    [mode |-> mode, run_mode |-> run_mode, solver |-> EnhancedCaptchaSolver(mode)]

\* a set_mode that rebuilds the flags of the solver from the new mode
set_mode_with_flags(self, new_mode) ==
    IF upper(new_mode) \in valid_modes
    THEN [ret |-> TRUE,
          self |-> [self EXCEPT !.mode = upper(new_mode),
                                !.run_mode = upper(new_mode),
                                !.solver = EnhancedCaptchaSolver(new_mode)]]
    ELSE [ret |-> FALSE, self |-> self]

\* EliteSniperV2.set_mode: the value returned and the engine after the call
set_mode(self, new_mode) ==
    IF upper(new_mode) \in valid_modes
    THEN [ret |-> TRUE,
          self |-> [self EXCEPT !.mode = upper(new_mode),
                                !.run_mode = upper(new_mode),
                                !.solver.mode = upper(new_mode)]]
    ELSE [ret |-> FALSE, self |-> self]

-----------------------------------------------------------------------------

(* The breaker driven through its API in any order (verify_resilience.py) *)

InitCB ==
    /\ now = 0
    /\ \E th \in 1..MaxThreshold, to \in 1..MaxTimeout :
          circuit_breaker = CircuitBreaker(th, to)
    /\ lastOp = "init"
    /\ ret = FALSE
    /\ prev = circuit_breaker
    /\ consec = 0
    /\ cfg = [mode |-> "HYBRID", ocr |-> TRUE, capsolver_enabled |-> TRUE,
              parallel |-> FALSE]
    /\ pc = "idle"
    /\ image = 0
    /\ futures = NoFutures
    /\ consumed = <<>>
    /\ result = NoResult
    /\ calls = NoCalls
    /\ enhanced = NotEnhanced
    /\ response = NoResponse
    /\ rpc = "idle"
    /\ rargs = NoArgs
    /\ rloc = NoLocals
    /\ sfp_ret = NoRet
    /\ retry_ret = NoRet
    /\ counts = NoCounts
    /\ accepted = NotAccepted
    /\ mpc = "idle"
    /\ mloc = NoMonthLocals
    /\ page_state = "UNKNOWN"
    /\ wrong_run = 0
    /\ slept = FALSE
    /\ session = SessionState(0)
    /\ sprev = session
    /\ incidents = <<>>
    /\ vret = FALSE
    /\ iprev = <<>>
    /\ expired_before = FALSE
    /\ vargs = NoValidateArgs
    /\ pre_solved = NoPreSolved
    /\ got = None
    /\ displayed = 0
    /\ stored = NotStored
    /\ wpc = [w \in Workers |-> "idle"]
    /\ wtmp = [w \in Workers |-> 0]
    /\ wseen = [w \in Workers |-> circuit_breaker]
    /\ issued = 0
    /\ successes = 0
    /\ vinput = <<>>
    /\ vout = NotValidated
    /\ probe_failed = FALSE
    /\ run_at_sleep = 0
    /\ tpc = "idle"
    /\ tattempt = 0
    /\ tret = FALSE
    /\ tlast = NoIteration
    /\ tinjects = 0
    /\ tsubmits = 0
    /\ sniper = EliteSniperV2(AUTO, HYBRID)
    /\ sniper_prev = EliteSniperV2(AUTO, HYBRID)
    /\ set_arg = <<>>
    /\ set_ret = FALSE

\* time passes
Tick ==
    /\ now < MaxTime
    /\ now' = now + 1
    /\ lastOp' = "tick"
    /\ UNCHANGED <<modeVars, turboVars, coolVars, probeVars, validateVars, workerVars, cacheVars, cbVars, solveVars, retryVars, monthVars, sessionVars>>

\* a caller invokes cb.record_failure()
CallRecordFailure ==
    /\ circuit_breaker.failures < MaxFailures
    /\ circuit_breaker' = record_failure(circuit_breaker, now)
    /\ prev' = circuit_breaker
    /\ lastOp' = "record_failure"
    /\ consec' = consec + 1
    /\ probe_failed' = (circuit_breaker.state = "HALF-OPEN")
    /\ UNCHANGED <<modeVars, turboVars, coolVars, validateVars, workerVars, cacheVars, now, ret, solveVars, retryVars, monthVars, sessionVars>>

\* a caller invokes cb.record_success()
CallRecordSuccess ==
    /\ circuit_breaker' = record_success(circuit_breaker)
    /\ prev' = circuit_breaker
    /\ lastOp' = "record_success"
    /\ consec' = 0
    /\ probe_failed' = FALSE
    /\ UNCHANGED <<modeVars, turboVars, coolVars, validateVars, workerVars, cacheVars, now, ret, solveVars, retryVars, monthVars, sessionVars>>

\* a caller invokes cb.is_open()
CallIsOpen ==
    /\ circuit_breaker' = is_open(circuit_breaker, now).cb
    /\ ret' = is_open(circuit_breaker, now).ret
    /\ prev' = circuit_breaker
    /\ lastOp' = "is_open"
    /\ UNCHANGED <<modeVars, turboVars, coolVars, probeVars, validateVars, workerVars, cacheVars, now, consec, solveVars, retryVars, monthVars, sessionVars>>

NextCB ==
    \/ Tick
    \/ CallRecordFailure
    \/ CallRecordSuccess
    \/ CallIsOpen

Spec == InitCB /\ [][NextCB]_vars

-----------------------------------------------------------------------------
(* One EnhancedCaptchaSolver solving challenge after challenge *)

Modes == {"HYBRID", "AUTO", "MANUAL"}

\* EnhancedCaptchaSolver.__init__ and CapSolverHandler.__init__: the OCR
\* engine is created only outside MANUAL mode and its creation may fail
Configs ==
    { c \in [mode : Modes, ocr : BOOLEAN, capsolver_enabled : BOOLEAN,
             parallel : BOOLEAN] : c.mode = "MANUAL" => ~c.ocr }

InitSolve ==
    /\ now = 0
    /\ \E th \in 1..SolveMaxThreshold, to \in 1..SolveMaxTimeout :
          circuit_breaker = CircuitBreaker(th, to)
    /\ lastOp = "init"
    /\ ret = FALSE
    /\ prev = circuit_breaker
    /\ consec = 0
    /\ cfg \in Configs
    /\ pc = "idle"
    /\ image = 0
    /\ futures = NoFutures
    /\ consumed = <<>>
    /\ result = NoResult
    /\ calls = NoCalls
    /\ enhanced = NotEnhanced
    /\ response = NoResponse
    /\ rpc = "idle"
    /\ rargs = NoArgs
    /\ rloc = NoLocals
    /\ sfp_ret = NoRet
    /\ retry_ret = NoRet
    /\ counts = NoCounts
    /\ accepted = NotAccepted
    /\ mpc = "idle"
    /\ mloc = NoMonthLocals
    /\ page_state = "UNKNOWN"
    /\ wrong_run = 0
    /\ slept = FALSE
    /\ session = SessionState(0)
    /\ sprev = session
    /\ incidents = <<>>
    /\ vret = FALSE
    /\ iprev = <<>>
    /\ expired_before = FALSE
    /\ vargs = NoValidateArgs
    /\ pre_solved = NoPreSolved
    /\ got = None
    /\ displayed = 0
    /\ stored = NotStored
    /\ wpc = [w \in Workers |-> "idle"]
    /\ wtmp = [w \in Workers |-> 0]
    /\ wseen = [w \in Workers |-> circuit_breaker]
    /\ issued = 0
    /\ successes = 0
    /\ vinput = <<>>
    /\ vout = NotValidated
    /\ probe_failed = FALSE
    /\ run_at_sleep = 0
    /\ tpc = "idle"
    /\ tattempt = 0
    /\ tret = FALSE
    /\ tlast = NoIteration
    /\ tinjects = 0
    /\ tsubmits = 0
    /\ sniper = EliteSniperV2(AUTO, HYBRID)
    /\ sniper_prev = EliteSniperV2(AUTO, HYBRID)
    /\ set_arg = <<>>
    /\ set_ret = FALSE

\* time passes, but not beyond the clock's bound
TickSolve ==
    /\ now < SolveMaxTime
    /\ now' = now + 1
    /\ lastOp' = "tick"
    /\ UNCHANGED <<modeVars, turboVars, coolVars, probeVars, validateVars, workerVars, cacheVars, cbVars, solveVars, retryVars, monthVars, sessionVars>>

\* a caller invokes solve(image_bytes)
Solve ==
    /\ pc \in {"idle", "returned"}
    /\ \E len \in ImageSizes :
          /\ image' = len
          /\ pc' = solve_entry(cfg, len).pc
          /\ result' = solve_entry(cfg, len).result
          /\ futures' = IF solve_entry(cfg, len).pc = "race"
                        THEN [capsolver |-> Running, local |-> Running]
                        ELSE NoFutures
          /\ \E p \in PreprocessOutcomes :
                enhanced' = IF solve_entry(cfg, len).pc = "returned"
                            THEN NotEnhanced
                            ELSE _preprocess_image(p)
    /\ consumed' = <<>>
    /\ calls' = NoCalls
    /\ response' = NoResponse
    /\ lastOp' = "solve"
    /\ UNCHANGED <<modeVars, turboVars, coolVars, probeVars, validateVars, workerVars, cacheVars, now, cbVars, cfg, retryVars, monthVars, sessionVars>>

\* the breaker bookkeeping of one solve_image_to_text call
RemoteCall(r, out) ==
    /\ circuit_breaker.failures < SolveMaxFailures
    /\ out = solve_image_to_text(cfg.capsolver_enabled, circuit_breaker, r, now)
    /\ circuit_breaker' = out.cb
    /\ prev' = circuit_breaker
    /\ ret' = is_open(circuit_breaker, now).ret
    /\ consec' = IF out.cb.failures = 0 THEN 0
                 ELSE IF out.cb.failures > circuit_breaker.failures
                 THEN consec + 1 ELSE consec
    /\ response' = IF out.net > 0 THEN r ELSE NoResponse
    /\ calls' = [calls EXCEPT !.remote = @ + 1, !.net = @ + out.net]

\* race mode: the pool thread running capsolver.solve_image_to_text finishes
TaskCapsolver ==
    /\ pc \in {"race", "shutdown"}
    /\ futures.capsolver.st = "running"
    /\ \E r \in Responses : \E out \in {solve_image_to_text(cfg.capsolver_enabled,
                                          circuit_breaker, r, now)} :
          /\ RemoteCall(r, out)
          /\ futures' = [futures EXCEPT !.capsolver = Done(out.code, out.status)]
    /\ lastOp' = "task_capsolver"
    /\ UNCHANGED <<modeVars, turboVars, coolVars, probeVars, validateVars, workerVars, cacheVars, now, cfg, pc, image, consumed, result, enhanced, retryVars, monthVars, sessionVars>>

\* race mode: the pool thread running _solve_local_ocr finishes
TaskLocal ==
    /\ pc \in {"race", "shutdown"}
    /\ futures.local.st = "running"
    /\ \E o \in OcrOutputs :
          futures' = [futures EXCEPT
                         !.local = Done(Str(_solve_local_ocr(o).code),
                                        _solve_local_ocr(o).status)]
    /\ calls' = [calls EXCEPT !.local = @ + 1]
    /\ lastOp' = "task_local"
    /\ UNCHANGED <<modeVars, turboVars, coolVars, probeVars, validateVars, workerVars, cacheVars, now, cbVars, cfg, pc, image, consumed, result, enhanced, response, retryVars, monthVars, sessionVars>>

\* race mode: as_completed yields a finished future and solve() examines it
RaceNext ==
    /\ pc = "race"
    /\ \E f \in DOMAIN futures :
          /\ futures[f].st = "done"
          /\ f \notin SeqRange(consumed)
          /\ pc' = race_next(futures, consumed, f).pc
          /\ result' = race_next(futures, consumed, f).result
          /\ consumed' = Append(consumed, f)
    /\ lastOp' = "race_next"
    /\ UNCHANGED <<modeVars, turboVars, coolVars, probeVars, validateVars, workerVars, cacheVars, now, cbVars, cfg, image, futures, calls, enhanced, response, retryVars, monthVars, sessionVars>>

\* race mode: executor.shutdown(wait=True) ends once every task has finished
ExecutorShutdown ==
    /\ pc = "shutdown"
    /\ AllDone(futures)
    /\ pc' = "returned"
    /\ lastOp' = "shutdown"
    /\ UNCHANGED <<modeVars, turboVars, coolVars, probeVars, validateVars, workerVars, cacheVars, now, cbVars, cfg, image, futures, consumed, result, calls, enhanced, response, retryVars, monthVars, sessionVars>>

\* sequential mode, PRIORITY 1: capsolver.solve_image_to_text and its check
SeqCapsolver ==
    /\ pc = "seq_capsolver"
    /\ \E r \in Responses : \E out \in {solve_image_to_text(cfg.capsolver_enabled,
                                          circuit_breaker, r, now)} :
          /\ RemoteCall(r, out)
          /\ futures' = [futures EXCEPT !.capsolver = Done(out.code, out.status)]
          /\ pc' = seq_capsolver(out).pc
          /\ result' = seq_capsolver(out).result
    /\ lastOp' = "seq_capsolver"
    /\ UNCHANGED <<modeVars, turboVars, coolVars, probeVars, validateVars, workerVars, cacheVars, now, cfg, image, consumed, enhanced, retryVars, monthVars, sessionVars>>

\* sequential mode, PRIORITY 2: _solve_local_ocr and its check
SeqLocal ==
    /\ pc = "seq_local"
    /\ cfg.ocr
    /\ \E o \in OcrOutputs :
          /\ futures' = [futures EXCEPT
                            !.local = Done(Str(_solve_local_ocr(o).code),
                                           _solve_local_ocr(o).status)]
          /\ pc' = seq_local(_solve_local_ocr(o)).pc
          /\ result' = seq_local(_solve_local_ocr(o)).result
    /\ calls' = [calls EXCEPT !.local = @ + 1]
    /\ lastOp' = "seq_local"
    /\ UNCHANGED <<modeVars, turboVars, coolVars, probeVars, validateVars, workerVars, cacheVars, now, cbVars, cfg, image, consumed, enhanced, response, retryVars, monthVars, sessionVars>>

NextSolve ==
    \/ TickSolve
    \/ Solve
    \/ TaskCapsolver
    \/ TaskLocal
    \/ RaceNext
    \/ ExecutorShutdown
    \/ SeqCapsolver
    \/ SeqLocal

SpecSolve == InitSolve /\ [][NextSolve]_vars

-----------------------------------------------------------------------------
(* One EnhancedCaptchaSolver serving solve_form_captcha_with_retry calls.   *)
(* solve() is taken by its return values (solve_returns); the page, the     *)
(* operator and the pre-solve cache are the environment.                    *)

\* session ages callers pass: young, at the ceiling, beyond it
SessionAges == {0, SessionAgeCeiling, SessionAgeCeiling + 1}

InitRetry ==
    /\ now = 0
    /\ circuit_breaker = CircuitBreaker(SolveMaxThreshold, SolveMaxTimeout)
    /\ lastOp = "init"
    /\ ret = FALSE
    /\ prev = circuit_breaker
    /\ consec = 0
    /\ cfg \in {c \in Configs : ~c.parallel}
    /\ pc = "idle"
    /\ image = 0
    /\ futures = NoFutures
    /\ consumed = <<>>
    /\ result = NoResult
    /\ calls = NoCalls
    /\ enhanced = NotEnhanced
    /\ response = NoResponse
    /\ rpc = "idle"
    /\ rargs = NoArgs
    /\ rloc = NoLocals
    /\ sfp_ret = NoRet
    /\ retry_ret = NoRet
    /\ counts = NoCounts
    /\ accepted = NotAccepted
    /\ mpc = "idle"
    /\ mloc = NoMonthLocals
    /\ page_state = "UNKNOWN"
    /\ wrong_run = 0
    /\ slept = FALSE
    /\ session = SessionState(0)
    /\ sprev = session
    /\ incidents = <<>>
    /\ vret = FALSE
    /\ iprev = <<>>
    /\ expired_before = FALSE
    /\ vargs = NoValidateArgs
    /\ pre_solved = NoPreSolved
    /\ got = None
    /\ displayed = 0
    /\ stored = NotStored
    /\ wpc = [w \in Workers |-> "idle"]
    /\ wtmp = [w \in Workers |-> 0]
    /\ wseen = [w \in Workers |-> circuit_breaker]
    /\ issued = 0
    /\ successes = 0
    /\ vinput = <<>>
    /\ vout = NotValidated
    /\ probe_failed = FALSE
    /\ run_at_sleep = 0
    /\ tpc = "idle"
    /\ tattempt = 0
    /\ tret = FALSE
    /\ tlast = NoIteration
    /\ tinjects = 0
    /\ tsubmits = 0
    /\ sniper = EliteSniperV2(AUTO, HYBRID)
    /\ sniper_prev = EliteSniperV2(AUTO, HYBRID)
    /\ set_arg = <<>>
    /\ set_ret = FALSE

\* a caller invokes solve_form_captcha_with_retry(page, max_attempts, session_age)
CallRetry ==
    /\ rpc \in {"idle", "returned"}
    /\ \E n \in 0..MaxAttemptsArg, a \in SessionAges :
          /\ rargs' = [max_attempts |-> n, session_age |-> a]
          /\ rloc' = [NoLocals EXCEPT !.max_attempts = attempt_limit(cfg, n)]
          /\ rpc' = IF attempt_limit(cfg, n) > 0 THEN "attempt" ELSE "returned"
          /\ retry_ret' = IF attempt_limit(cfg, n) > 0
                          THEN NoRet
                          ELSE Ret(FALSE, None, "MAX_ATTEMPTS_REACHED")
    /\ sfp_ret' = NoRet
    /\ counts' = NoCounts
    /\ accepted' = NotAccepted
    /\ lastOp' = "retry"
    /\ UNCHANGED <<modeVars, turboVars, coolVars, probeVars, validateVars, workerVars, cacheVars, now, cbVars, solveVars, monthVars, sessionVars>>

\* the loop calls solve_from_page, which runs up to its internal loop
SfpStart ==
    /\ rpc = "attempt"
    /\ rloc.attempt < MaxRounds
    /\ \E check \in {"failed", "no_captcha", "captcha"},
          input_visible \in BOOLEAN, pre \in PreSolved :
          /\ rpc' = sfp_start(check, input_visible, pre).pc
          /\ sfp_ret' = sfp_start(check, input_visible, pre).ret
          /\ rloc' = [rloc EXCEPT
                         !.internal_attempt = 0,
                         !.code = sfp_start(check, input_visible, pre).code,
                         !.status = sfp_start(check, input_visible, pre).status]
    /\ counts' = [counts EXCEPT !.rounds = @ + 1]
    /\ lastOp' = "solve_from_page"
    /\ UNCHANGED <<modeVars, turboVars, coolVars, probeVars, validateVars, workerVars, cacheVars, now, cbVars, solveVars, rargs, retry_ret, accepted, monthVars, sessionVars>>

\* solve_from_page: _get_captcha_image finds the image or not
SfpImage ==
    /\ rpc = "sfp_image"
    /\ \E found \in BOOLEAN :
          /\ rpc' = IF found THEN "sfp_solve" ELSE "sfp_returned"
          /\ sfp_ret' = IF found THEN NoRet ELSE Ret(FALSE, None, "NO_IMAGE")
    /\ counts' = [counts EXCEPT !.captures = @ + 1]
    /\ lastOp' = "get_captcha_image"
    /\ UNCHANGED <<modeVars, turboVars, coolVars, probeVars, validateVars, workerVars, cacheVars, now, cbVars, solveVars, rargs, rloc, retry_ret, accepted, monthVars, sessionVars>>

\* solve_from_page: solve() returns and the execution-mode logic follows
SfpSolve ==
    /\ rpc = "sfp_solve"
    /\ \E r \in solve_returns(cfg) :
          /\ rpc' = sfp_after_solve(cfg, rloc.internal_attempt, r).pc
          /\ sfp_ret' = sfp_after_solve(cfg, rloc.internal_attempt, r).ret
          /\ rloc' = [rloc EXCEPT
                         !.code = Str(r.code),
                         !.status = r.status,
                         !.internal_attempt =
                             sfp_after_solve(cfg, rloc.internal_attempt, r).internal_attempt]
          /\ counts' = [counts EXCEPT
                           !.solves = @ + 1,
                           !.reloads = @ + sfp_after_solve(cfg, rloc.internal_attempt, r).reloads,
                           !.no_engine = @ + IF r.status = "NO_OCR" THEN 1 ELSE 0]
          /\ accepted' = IF ~accepted.set /\ r.code # <<>>
                         THEN [set |-> TRUE, code |-> r.code, status |-> r.status,
                               at |-> [counts EXCEPT !.solves = @ + 1]]
                         ELSE accepted
    /\ lastOp' = "solve"
    /\ UNCHANGED <<modeVars, turboVars, coolVars, probeVars, validateVars, workerVars, cacheVars, now, cbVars, solveVars, rargs, retry_ret, monthVars, sessionVars>>

\* solve_from_page, HYBRID and MANUAL mode: the operator is asked
SfpManual ==
    /\ rpc = "sfp_manual"
    /\ \E manual_code \in ManualAnswers :
          /\ rpc' = sfp_after_manual(rloc, manual_code).pc
          /\ sfp_ret' = sfp_after_manual(rloc, manual_code).ret
          /\ rloc' = [rloc EXCEPT
                         !.code = sfp_after_manual(rloc, manual_code).code,
                         !.status = sfp_after_manual(rloc, manual_code).status,
                         !.internal_attempt =
                             sfp_after_manual(rloc, manual_code).internal_attempt]
    /\ counts' = [counts EXCEPT !.manuals = @ + 1]
    /\ lastOp' = "request_manual_solution"
    /\ UNCHANGED <<modeVars, turboVars, coolVars, probeVars, validateVars, workerVars, cacheVars, now, cbVars, solveVars, rargs, retry_ret, accepted, monthVars, sessionVars>>

\* solve_from_page: the code is written into the input field
SfpFill ==
    /\ rpc = "sfp_fill"
    /\ \E fill_ok \in BOOLEAN :
          /\ sfp_ret' = sfp_fill(rloc, fill_ok)
          /\ counts' = [counts EXCEPT !.fill_errors = @ + IF fill_ok THEN 0 ELSE 1]
    /\ rpc' = "sfp_returned"
    /\ lastOp' = "fill"
    /\ UNCHANGED <<modeVars, turboVars, coolVars, probeVars, validateVars, workerVars, cacheVars, now, cbVars, solveVars, rargs, rloc, retry_ret, accepted, monthVars, sessionVars>>

\* the loop body after solve_from_page: return, give up, or reload and go on
RetryStep ==
    /\ rpc = "sfp_returned"
    /\ \E ack \in BOOLEAN :
          /\ rpc' = retry_step(rloc.max_attempts, rloc.attempt,
                               rargs.session_age, sfp_ret, ack).pc
          /\ retry_ret' = retry_step(rloc.max_attempts, rloc.attempt,
                                     rargs.session_age, sfp_ret, ack).ret
          /\ counts' = [counts EXCEPT
                           !.reloads = @ + retry_step(rloc.max_attempts, rloc.attempt,
                                                      rargs.session_age, sfp_ret, ack).reloads]
    /\ rloc' = [rloc EXCEPT !.attempt = @ + 1]
    /\ lastOp' = "retry_step"
    /\ UNCHANGED <<modeVars, turboVars, coolVars, probeVars, validateVars, workerVars, cacheVars, now, cbVars, solveVars, rargs, sfp_ret, accepted, monthVars, sessionVars>>

NextRetry ==
    \/ CallRetry
    \/ SfpStart
    \/ SfpImage
    \/ SfpSolve
    \/ SfpManual
    \/ SfpFill
    \/ RetryStep

SpecRetry == InitRetry /\ [][NextRetry]_vars

-----------------------------------------------------------------------------
(* _process_month_page called for one month page after the other; the page  *)
(* and the verdict of the server on each submitted answer are environment.  *)

InitMonth ==
    /\ now = 0
    /\ circuit_breaker = CircuitBreaker(SolveMaxThreshold, SolveMaxTimeout)
    /\ lastOp = "init"
    /\ ret = FALSE
    /\ prev = circuit_breaker
    /\ consec = 0
    /\ cfg = [mode |-> "AUTO", ocr |-> TRUE, capsolver_enabled |-> TRUE,
              parallel |-> FALSE]
    /\ pc = "idle"
    /\ image = 0
    /\ futures = NoFutures
    /\ consumed = <<>>
    /\ result = NoResult
    /\ calls = NoCalls
    /\ enhanced = NotEnhanced
    /\ response = NoResponse
    /\ rpc = "idle"
    /\ rargs = NoArgs
    /\ rloc = NoLocals
    /\ sfp_ret = NoRet
    /\ retry_ret = NoRet
    /\ counts = NoCounts
    /\ accepted = NotAccepted
    /\ mpc = "idle"
    /\ mloc = NoMonthLocals
    /\ page_state = "UNKNOWN"
    /\ wrong_run = 0
    /\ slept = FALSE
    /\ session = SessionState(0)
    /\ sprev = session
    /\ incidents = <<>>
    /\ vret = FALSE
    /\ iprev = <<>>
    /\ expired_before = FALSE
    /\ vargs = NoValidateArgs
    /\ pre_solved = NoPreSolved
    /\ got = None
    /\ displayed = 0
    /\ stored = NotStored
    /\ wpc = [w \in Workers |-> "idle"]
    /\ wtmp = [w \in Workers |-> 0]
    /\ wseen = [w \in Workers |-> circuit_breaker]
    /\ issued = 0
    /\ successes = 0
    /\ vinput = <<>>
    /\ vout = NotValidated
    /\ probe_failed = FALSE
    /\ run_at_sleep = 0
    /\ tpc = "idle"
    /\ tattempt = 0
    /\ tret = FALSE
    /\ tlast = NoIteration
    /\ tinjects = 0
    /\ tsubmits = 0
    /\ sniper = EliteSniperV2(AUTO, HYBRID)
    /\ sniper_prev = EliteSniperV2(AUTO, HYBRID)
    /\ set_arg = <<>>
    /\ set_ret = FALSE

\* _process_month_page(page, session, url): health checks and navigation;
\* if they pass, the captcha loop starts on the page just loaded
MonthCall ==
    /\ mpc \in {"idle", "returned"}
    /\ \E ok \in BOOLEAN, st \in FreshPageStates :
          /\ mpc' = IF ok THEN "analyze" ELSE "returned"
          /\ page_state' = IF ok THEN st ELSE page_state
    /\ mloc' = NoMonthLocals
    /\ slept' = FALSE
    /\ lastOp' = "process_month_page"
    /\ UNCHANGED <<modeVars, turboVars, coolVars, probeVars, validateVars, workerVars, cacheVars, now, cbVars, solveVars, retryVars, wrong_run, sessionVars>>

\* top of a loop iteration: _analyze_page_state and the counting of a
\* wrong-answer report; time.sleep(120) and return at the threshold
MonthAnalyze ==
    /\ mpc = "analyze"
    /\ mpc' = month_analyze(mloc, page_state).pc
    /\ mloc' = month_analyze(mloc, page_state).l
    /\ slept' = month_analyze(mloc, page_state).sleep
    /\ wrong_run' = IF month_analyze(mloc, page_state).sleep THEN 0 ELSE wrong_run
    /\ run_at_sleep' = IF month_analyze(mloc, page_state).sleep THEN wrong_run ELSE run_at_sleep
    /\ lastOp' = "analyze_page_state"
    /\ UNCHANGED <<modeVars, turboVars, probeVars, validateVars, workerVars, cacheVars, now, cbVars, solveVars, retryVars, page_state, sessionVars>>

\* solve_from_page fails: counting, then time.sleep(120) and return at the
\* threshold, or _refresh_captcha and the next iteration
MonthSolveFailed ==
    /\ mpc = "solve"
    /\ mpc' = month_solve(mloc, page_state, FALSE).pc
    /\ mloc' = month_solve(mloc, page_state, FALSE).l
    /\ slept' = month_solve(mloc, page_state, FALSE).sleep
    /\ wrong_run' = IF month_solve(mloc, page_state, FALSE).sleep THEN 0 ELSE wrong_run
    /\ run_at_sleep' = IF month_solve(mloc, page_state, FALSE).sleep THEN wrong_run ELSE run_at_sleep
    /\ \E st \in {page_state, "CAPTCHA"} :
          page_state' = IF month_solve(mloc, page_state, FALSE).sleep
                        THEN page_state ELSE st
    /\ lastOp' = "solve_failed"
    /\ UNCHANGED <<modeVars, turboVars, probeVars, validateVars, workerVars, cacheVars, now, cbVars, solveVars, retryVars, sessionVars>>

\* solve_from_page succeeds and submit_captcha sends the answer; the server
\* accepts it (calendar or slots) or reports it wrong
MonthSubmit ==
    /\ mpc = "solve"
    /\ wrong_run < MaxWrongRun
    /\ mpc' = month_solve(mloc, page_state, TRUE).pc
    /\ mloc' = month_solve(mloc, page_state, TRUE).l
    /\ slept' = month_solve(mloc, page_state, TRUE).sleep
    /\ \E st \in SubmittedPageStates :
          /\ page_state' = st
          /\ wrong_run' = IF st = "WRONG_CODE" THEN wrong_run + 1
                          ELSE IF st \in {"SLOTS_FOUND", "EMPTY_CALENDAR"} THEN 0
                          ELSE wrong_run
    /\ lastOp' = "submit_captcha"
    /\ UNCHANGED <<modeVars, turboVars, coolVars, probeVars, validateVars, workerVars, cacheVars, now, cbVars, solveVars, retryVars, sessionVars>>

NextMonth ==
    \/ MonthCall
    \/ MonthAnalyze
    \/ MonthSolveFailed
    \/ MonthSubmit

SpecMonth == InitMonth /\ [][NextMonth]_vars

-----------------------------------------------------------------------------
(* One session of one worker: the worker's steps touch it, record failures  *)
(* and solved captchas, validate it and soft-recover it, in any order.      *)

InitSession ==
    /\ now = 0
    /\ circuit_breaker = CircuitBreaker(SolveMaxThreshold, SolveMaxTimeout)
    /\ lastOp = "init"
    /\ ret = FALSE
    /\ prev = circuit_breaker
    /\ consec = 0
    /\ cfg = [mode |-> "AUTO", ocr |-> TRUE, capsolver_enabled |-> TRUE,
              parallel |-> FALSE]
    /\ pc = "idle"
    /\ image = 0
    /\ futures = NoFutures
    /\ consumed = <<>>
    /\ result = NoResult
    /\ calls = NoCalls
    /\ enhanced = NotEnhanced
    /\ response = NoResponse
    /\ rpc = "idle"
    /\ rargs = NoArgs
    /\ rloc = NoLocals
    /\ sfp_ret = NoRet
    /\ retry_ret = NoRet
    /\ counts = NoCounts
    /\ accepted = NotAccepted
    /\ mpc = "idle"
    /\ mloc = NoMonthLocals
    /\ page_state = "UNKNOWN"
    /\ wrong_run = 0
    /\ slept = FALSE
    /\ session = SessionState(0)
    /\ sprev = session
    /\ incidents = <<>>
    /\ vret = FALSE
    /\ iprev = <<>>
    /\ expired_before = FALSE
    /\ vargs = NoValidateArgs
    /\ pre_solved = NoPreSolved
    /\ got = None
    /\ displayed = 0
    /\ stored = NotStored
    /\ wpc = [w \in Workers |-> "idle"]
    /\ wtmp = [w \in Workers |-> 0]
    /\ wseen = [w \in Workers |-> circuit_breaker]
    /\ issued = 0
    /\ successes = 0
    /\ vinput = <<>>
    /\ vout = NotValidated
    /\ probe_failed = FALSE
    /\ run_at_sleep = 0
    /\ tpc = "idle"
    /\ tattempt = 0
    /\ tret = FALSE
    /\ tlast = NoIteration
    /\ tinjects = 0
    /\ tsubmits = 0
    /\ sniper = EliteSniperV2(AUTO, HYBRID)
    /\ sniper_prev = EliteSniperV2(AUTO, HYBRID)
    /\ set_arg = <<>>
    /\ set_ret = FALSE

\* time passes
TickSession ==
    /\ now + SessionClockStep <= SessionMaxClock
    /\ now' = now + SessionClockStep
    /\ lastOp' = "tick"
    /\ expired_before' = (expired_before \/ is_expired(session, now'))
    /\ UNCHANGED <<modeVars, turboVars, coolVars, probeVars, validateVars, workerVars, cacheVars, cbVars, solveVars, retryVars, monthVars, session, sprev,
                   incidents, vret, iprev, vargs>>

\* a step of the worker succeeds: session.touch()
CallTouch ==
    /\ session' = touch(session, now)
    /\ sprev' = session
    /\ iprev' = incidents
    /\ lastOp' = "touch"
    /\ UNCHANGED <<modeVars, turboVars, coolVars, probeVars, validateVars, workerVars, cacheVars, now, cbVars, solveVars, retryVars, monthVars, incidents, vret,
                   expired_before, vargs>>

\* a step of the worker raises: session.increment_failure(str(e))
CallIncrementFailure ==
    /\ session.failures < SessionMaxFailures + 1
    /\ session' = increment_failure(session)
    /\ sprev' = session
    /\ iprev' = incidents
    /\ lastOp' = "increment_failure"
    /\ UNCHANGED <<modeVars, turboVars, coolVars, probeVars, validateVars, workerVars, cacheVars, now, cbVars, solveVars, retryVars, monthVars, incidents, vret,
                   expired_before, vargs>>

\* a captcha was solved and passed: session.mark_captcha_solved()
CallMarkCaptchaSolved ==
    /\ session' = mark_captcha_solved(session)
    /\ sprev' = session
    /\ iprev' = incidents
    /\ lastOp' = "mark_captcha_solved"
    /\ UNCHANGED <<modeVars, turboVars, coolVars, probeVars, validateVars, workerVars, cacheVars, now, cbVars, solveVars, retryVars, monthVars, incidents, vret,
                   expired_before, vargs>>

\* the worker calls validate_session_health(page, session, location)
CallValidate ==
    /\ Len(incidents) < MaxIncidents
    /\ \E location \in Locations, has_captcha \in BOOLEAN,
          lastname_visible \in BOOLEAN, month_form_visible \in BOOLEAN :
          LET v == validate_session_health(session, now, location, has_captcha,
                                           lastname_visible, month_form_visible)
          IN  /\ session' = v.session
              /\ vret' = v.ret
              /\ vargs' = [location |-> location, has_captcha |-> has_captcha,
                           marker_present |->
                               \/ location = "POST_SUBMIT" /\ lastname_visible
                               \/ location = "FORM" /\ month_form_visible]
              /\ incidents' = IF v.incident = "NONE" THEN incidents
                              ELSE Append(incidents, v.incident)
    /\ sprev' = session
    /\ iprev' = incidents
    /\ lastOp' = "validate_session_health"
    /\ UNCHANGED <<modeVars, turboVars, coolVars, probeVars, validateVars, workerVars, cacheVars, now, cbVars, solveVars, retryVars, monthVars, expired_before>>

\* the worker calls soft_recovery(session, reason)
CallSoftRecovery ==
    /\ session' = soft_recovery(session, now)
    /\ sprev' = session
    /\ iprev' = incidents
    /\ lastOp' = "soft_recovery"
    /\ UNCHANGED <<modeVars, turboVars, coolVars, probeVars, validateVars, workerVars, cacheVars, now, cbVars, solveVars, retryVars, monthVars, incidents, vret,
                   expired_before, vargs>>

NextSession ==
    \/ TickSession
    \/ CallTouch
    \/ CallIncrementFailure
    \/ CallMarkCaptchaSolved
    \/ CallValidate
    \/ CallSoftRecovery

SpecSession == InitSession /\ [][NextSession]_vars

-----------------------------------------------------------------------------
(* The pre-solve cache of one solver on one page: codes are pre-solved,     *)
(* read, cleared and consumed by solve_from_page while the page reloads its *)
(* captcha and time passes.                                                 *)

InitCache ==
    /\ now = 0
    /\ circuit_breaker = CircuitBreaker(SolveMaxThreshold, SolveMaxTimeout)
    /\ lastOp = "init"
    /\ ret = FALSE
    /\ prev = circuit_breaker
    /\ consec = 0
    /\ cfg = [mode |-> "AUTO", ocr |-> TRUE, capsolver_enabled |-> TRUE,
              parallel |-> FALSE]
    /\ pc = "idle"
    /\ image = 0
    /\ futures = NoFutures
    /\ consumed = <<>>
    /\ result = NoResult
    /\ calls = NoCalls
    /\ enhanced = NotEnhanced
    /\ response = NoResponse
    /\ rpc = "idle"
    /\ rargs = NoArgs
    /\ rloc = NoLocals
    /\ sfp_ret = NoRet
    /\ retry_ret = NoRet
    /\ counts = NoCounts
    /\ accepted = NotAccepted
    /\ mpc = "idle"
    /\ mloc = NoMonthLocals
    /\ page_state = "UNKNOWN"
    /\ wrong_run = 0
    /\ slept = FALSE
    /\ session = SessionState(0)
    /\ sprev = session
    /\ incidents = <<>>
    /\ vret = FALSE
    /\ iprev = <<>>
    /\ expired_before = FALSE
    /\ vargs = NoValidateArgs
    /\ pre_solved = NoPreSolved
    /\ got = None
    /\ displayed = 0
    /\ stored = NotStored
    /\ wpc = [w \in Workers |-> "idle"]
    /\ wtmp = [w \in Workers |-> 0]
    /\ wseen = [w \in Workers |-> circuit_breaker]
    /\ issued = 0
    /\ successes = 0
    /\ vinput = <<>>
    /\ vout = NotValidated
    /\ probe_failed = FALSE
    /\ run_at_sleep = 0
    /\ tpc = "idle"
    /\ tattempt = 0
    /\ tret = FALSE
    /\ tlast = NoIteration
    /\ tinjects = 0
    /\ tsubmits = 0
    /\ sniper = EliteSniperV2(AUTO, HYBRID)
    /\ sniper_prev = EliteSniperV2(AUTO, HYBRID)
    /\ set_arg = <<>>
    /\ set_ret = FALSE

\* time passes
TickCache ==
    /\ now + CacheClockStep <= CacheMaxClock
    /\ now' = now + CacheClockStep
    /\ lastOp' = "tick"
    /\ UNCHANGED <<modeVars, turboVars, coolVars, probeVars, validateVars, workerVars, cbVars, solveVars, retryVars, monthVars, sessionVars, cacheVars>>

\* pre_solve(page) on the captcha the page displays
CallPreSolve ==
    /\ \E check \in {"failed", "no_captcha", "captcha"}, image_found \in BOOLEAN,
          r \in solve_returns(cfg) :
          LET o == pre_solve(pre_solved, check, image_found, r, now)
          IN  /\ pre_solved' = o.cache
              /\ sfp_ret' = o.ret
              /\ stored' = IF Truthy(o.ret.code)
                           THEN [set |-> TRUE, code |-> o.ret.code, time |-> now,
                                 for |-> displayed, cleared |-> FALSE]
                           ELSE stored
    /\ lastOp' = "pre_solve"
    /\ UNCHANGED <<modeVars, turboVars, coolVars, probeVars, validateVars, workerVars, now, cbVars, solveVars, rpc, rargs, rloc, retry_ret, counts,
                   accepted, monthVars, sessionVars, got, displayed>>

\* get_pre_solved()
CallGetPreSolved ==
    /\ pre_solved' = get_pre_solved(pre_solved, now).cache
    /\ got' = get_pre_solved(pre_solved, now).ret
    /\ lastOp' = "get_pre_solved"
    /\ UNCHANGED <<modeVars, turboVars, coolVars, probeVars, validateVars, workerVars, now, cbVars, solveVars, retryVars, monthVars, sessionVars,
                   displayed, stored>>

\* clear_pre_solved()
CallClearPreSolved ==
    /\ pre_solved' = clear_pre_solved(pre_solved)
    /\ stored' = [stored EXCEPT !.cleared = TRUE]
    /\ lastOp' = "clear_pre_solved"
    /\ UNCHANGED <<modeVars, turboVars, coolVars, probeVars, validateVars, workerVars, now, cbVars, solveVars, retryVars, monthVars, sessionVars,
                   got, displayed>>

\* solve_from_page(page) reaches its pre-solved check and takes the code
SfpPreSolved ==
    /\ pre_solved' = sfp_pre_solved(pre_solved, now).cache
    /\ got' = sfp_pre_solved(pre_solved, now).code
    /\ stored' = IF Truthy(sfp_pre_solved(pre_solved, now).code)
                 THEN [stored EXCEPT !.cleared = TRUE] ELSE stored
    /\ lastOp' = "solve_from_page"
    /\ UNCHANGED <<modeVars, turboVars, coolVars, probeVars, validateVars, workerVars, now, cbVars, solveVars, retryVars, monthVars, sessionVars,
                   displayed>>

\* reload_captcha(page): if a reload button was clicked the page displays
\* another captcha
CallReloadCaptcha ==
    /\ displayed < MaxChallenges
    /\ \E ack \in BOOLEAN :
          /\ ret' = ack
          /\ displayed' = IF ack THEN displayed + 1 ELSE displayed
    /\ lastOp' = "reload_captcha"
    /\ UNCHANGED <<modeVars, turboVars, coolVars, probeVars, validateVars, workerVars, now, circuit_breaker, prev, consec, solveVars, retryVars,
                   monthVars, sessionVars, pre_solved, got, stored>>

NextCache ==
    \/ TickCache
    \/ CallPreSolve
    \/ CallGetPreSolved
    \/ CallClearPreSolved
    \/ SfpPreSolved
    \/ CallReloadCaptcha

SpecCache == InitCache /\ [][NextCache]_vars

-----------------------------------------------------------------------------

(* The session workers of one engine record remote failures and successes *)
(* and consult the breaker, each from its own thread.                      *)

InitWorkers ==
    /\ now = 0
    /\ \E th \in 1..SolveMaxThreshold :
          circuit_breaker = CircuitBreaker(th, SolveMaxTimeout)
    /\ lastOp = "init"
    /\ ret = FALSE
    /\ prev = circuit_breaker
    /\ consec = 0
    /\ cfg = [mode |-> "AUTO", ocr |-> TRUE, capsolver_enabled |-> TRUE,
              parallel |-> FALSE]
    /\ pc = "idle"
    /\ image = 0
    /\ futures = NoFutures
    /\ consumed = <<>>
    /\ result = NoResult
    /\ calls = NoCalls
    /\ enhanced = NotEnhanced
    /\ response = NoResponse
    /\ rpc = "idle"
    /\ rargs = NoArgs
    /\ rloc = NoLocals
    /\ sfp_ret = NoRet
    /\ retry_ret = NoRet
    /\ counts = NoCounts
    /\ accepted = NotAccepted
    /\ mpc = "idle"
    /\ mloc = NoMonthLocals
    /\ page_state = "UNKNOWN"
    /\ wrong_run = 0
    /\ slept = FALSE
    /\ session = SessionState(0)
    /\ sprev = session
    /\ incidents = <<>>
    /\ vret = FALSE
    /\ iprev = <<>>
    /\ expired_before = FALSE
    /\ vargs = NoValidateArgs
    /\ pre_solved = NoPreSolved
    /\ got = None
    /\ displayed = 0
    /\ stored = NotStored
    /\ wpc = [w \in Workers |-> "idle"]
    /\ wtmp = [w \in Workers |-> 0]
    /\ wseen = [w \in Workers |-> circuit_breaker]
    /\ issued = 0
    /\ successes = 0
    /\ vinput = <<>>
    /\ vout = NotValidated
    /\ probe_failed = FALSE
    /\ run_at_sleep = 0
    /\ tpc = "idle"
    /\ tattempt = 0
    /\ tret = FALSE
    /\ tlast = NoIteration
    /\ tinjects = 0
    /\ tsubmits = 0
    /\ sniper = EliteSniperV2(AUTO, HYBRID)
    /\ sniper_prev = EliteSniperV2(AUTO, HYBRID)
    /\ set_arg = <<>>
    /\ set_ret = FALSE

\* worker w enters record_failure and loads self.failures
RfLoad(w) ==
    /\ wpc[w] = "idle"
    /\ issued < MaxIssued
    /\ wtmp' = [wtmp EXCEPT ![w] = rf_load(WorkerBreaker(w))]
    /\ wpc' = [wpc EXCEPT ![w] = "rf_store"]
    /\ issued' = issued + 1
    /\ lastOp' = "rf_load"
    /\ UNCHANGED <<modeVars, turboVars, coolVars, probeVars, validateVars, now, cbVars, solveVars, retryVars, monthVars, sessionVars,
                   cacheVars, wseen, successes>>

\* worker w stores the incremented value
RfStore(w) ==
    /\ wpc[w] = "rf_store"
    /\ circuit_breaker' = rf_store(WorkerBreaker(w), wtmp[w])
    /\ prev' = circuit_breaker
    /\ wpc' = [wpc EXCEPT ![w] = "rf_time"]
    /\ lastOp' = "rf_store"
    /\ UNCHANGED <<modeVars, turboVars, coolVars, probeVars, validateVars, now, ret, consec, solveVars, retryVars, monthVars, sessionVars,
                   cacheVars, wtmp, wseen, issued, successes>>

\* worker w sets last_failure_time
RfTime(w) ==
    /\ wpc[w] = "rf_time"
    /\ circuit_breaker' = rf_time(WorkerBreaker(w), now)
    /\ prev' = circuit_breaker
    /\ wpc' = [wpc EXCEPT ![w] = "rf_check"]
    /\ lastOp' = "rf_time"
    /\ UNCHANGED <<modeVars, turboVars, coolVars, probeVars, validateVars, now, ret, consec, solveVars, retryVars, monthVars, sessionVars,
                   cacheVars, wtmp, wseen, issued, successes>>

\* worker w tests the threshold and returns from record_failure
RfCheck(w) ==
    /\ wpc[w] = "rf_check"
    /\ circuit_breaker' = rf_check(WorkerBreaker(w))
    /\ prev' = circuit_breaker
    /\ wpc' = [wpc EXCEPT ![w] = "idle"]
    /\ wseen' = [wseen EXCEPT ![w] = circuit_breaker']
    /\ lastOp' = "record_failure"
    /\ UNCHANGED <<modeVars, turboVars, coolVars, probeVars, validateVars, now, ret, consec, solveVars, retryVars, monthVars, sessionVars,
                   cacheVars, wtmp, issued, successes>>

\* worker w calls record_success
WorkerRecordSuccess(w) ==
    /\ wpc[w] = "idle"
    /\ successes < MaxIssued
    /\ circuit_breaker' = record_success(WorkerBreaker(w))
    /\ prev' = circuit_breaker
    /\ wseen' = [wseen EXCEPT ![w] = circuit_breaker']
    /\ successes' = successes + 1
    /\ lastOp' = "record_success"
    /\ UNCHANGED <<modeVars, turboVars, coolVars, probeVars, validateVars, now, ret, consec, solveVars, retryVars, monthVars, sessionVars,
                   cacheVars, wpc, wtmp, issued>>

\* worker w calls is_open before a remote request
WorkerIsOpen(w) ==
    /\ wpc[w] = "idle"
    /\ circuit_breaker' = is_open(WorkerBreaker(w), now).cb
    /\ ret' = is_open(WorkerBreaker(w), now).ret
    /\ prev' = circuit_breaker
    /\ wseen' = [wseen EXCEPT ![w] = circuit_breaker']
    /\ lastOp' = "is_open"
    /\ UNCHANGED <<modeVars, turboVars, coolVars, probeVars, validateVars, now, consec, solveVars, retryVars, monthVars, sessionVars,
                   cacheVars, wpc, wtmp, issued, successes>>

NextWorkers ==
    \E w \in Workers :
        \/ RfLoad(w)
        \/ RfStore(w)
        \/ RfTime(w)
        \/ RfCheck(w)
        \/ WorkerRecordSuccess(w)
        \/ WorkerIsOpen(w)

SpecWorkers == InitWorkers /\ [][NextWorkers]_vars

-----------------------------------------------------------------------------

(* validate_captcha_result applied to strings over a small alphabet *)

\* characters of the strings validated: a digit, a letter, a space
ValidateChars == {"4", "a", " "}

\* all strings over ValidateChars of up to MaxCodeLen characters, and the
\* listed black patterns
ValidateInputs ==
    UNION {[1..n -> ValidateChars] : n \in 0..MaxCodeLen} \cup black_patterns

InitValidate ==
    /\ now = 0
    /\ circuit_breaker = CircuitBreaker(SolveMaxThreshold, SolveMaxTimeout)
    /\ lastOp = "init"
    /\ ret = FALSE
    /\ prev = circuit_breaker
    /\ consec = 0
    /\ cfg = [mode |-> "AUTO", ocr |-> TRUE, capsolver_enabled |-> TRUE,
              parallel |-> FALSE]
    /\ pc = "idle"
    /\ image = 0
    /\ futures = NoFutures
    /\ consumed = <<>>
    /\ result = NoResult
    /\ calls = NoCalls
    /\ enhanced = NotEnhanced
    /\ response = NoResponse
    /\ rpc = "idle"
    /\ rargs = NoArgs
    /\ rloc = NoLocals
    /\ sfp_ret = NoRet
    /\ retry_ret = NoRet
    /\ counts = NoCounts
    /\ accepted = NotAccepted
    /\ mpc = "idle"
    /\ mloc = NoMonthLocals
    /\ page_state = "UNKNOWN"
    /\ wrong_run = 0
    /\ slept = FALSE
    /\ session = SessionState(0)
    /\ sprev = session
    /\ incidents = <<>>
    /\ vret = FALSE
    /\ iprev = <<>>
    /\ expired_before = FALSE
    /\ vargs = NoValidateArgs
    /\ pre_solved = NoPreSolved
    /\ got = None
    /\ displayed = 0
    /\ stored = NotStored
    /\ wpc = [w \in Workers |-> "idle"]
    /\ wtmp = [w \in Workers |-> 0]
    /\ wseen = [w \in Workers |-> circuit_breaker]
    /\ issued = 0
    /\ successes = 0
    /\ vinput \in ValidateInputs
    /\ vout = NotValidated
    /\ probe_failed = FALSE
    /\ run_at_sleep = 0
    /\ tpc = "idle"
    /\ tattempt = 0
    /\ tret = FALSE
    /\ tlast = NoIteration
    /\ tinjects = 0
    /\ tsubmits = 0
    /\ sniper = EliteSniperV2(AUTO, HYBRID)
    /\ sniper_prev = EliteSniperV2(AUTO, HYBRID)
    /\ set_arg = <<>>
    /\ set_ret = FALSE

\* validate_captcha_result(vinput)
CallValidateCaptchaResult ==
    /\ lastOp = "init"
    /\ vout' = validate_captcha_result(Str(vinput))
    /\ lastOp' = "validate_captcha_result"
    /\ UNCHANGED <<modeVars, turboVars, coolVars, probeVars, now, cbVars, solveVars, retryVars, monthVars, sessionVars,
                   cacheVars, workerVars, vinput>>

NextValidate == CallValidateCaptchaResult

SpecValidate == InitValidate /\ [][NextValidate]_vars

-----------------------------------------------------------------------------

(* Claims about the CircuitBreaker, checked under Spec *)

Elapsed(cb) == now - cb.last_failure_time

\* C1: after `threshold` record_failure() calls with no record_success() in
\* between the breaker is OPEN and is_open() returns true while the cooldown
\* has not elapsed since the last failure; with fewer consecutive failures
\* the breaker is CLOSED and is_open() returns false.
C1_OpensAtThreshold ==
    /\ (consec >= circuit_breaker.threshold
          /\ Elapsed(circuit_breaker) < circuit_breaker.timeout)
        => /\ circuit_breaker.state = "OPEN"
           /\ is_open(circuit_breaker, now).ret = TRUE
    /\ consec < circuit_breaker.threshold
        => /\ circuit_breaker.state = "CLOSED"
           /\ is_open(circuit_breaker, now).ret = FALSE

C1_Witness ==
    /\ circuit_breaker.threshold = 2
    /\ consec = 2
    /\ prev.state = "OPEN"
    /\ lastOp = "is_open"
    /\ ret = TRUE

\* C2 (as claimed): on an OPEN breaker whose cooldown has elapsed the next
\* is_open() returns false and moves the breaker to HALF-OPEN, and every
\* further is_open() before a record_success()/record_failure() returns true.
C2_SingleProbe ==
    lastOp = "is_open" =>
        /\ (prev.state = "OPEN" /\ Elapsed(prev) > prev.timeout)
            => (ret = FALSE /\ circuit_breaker.state = "HALF-OPEN")
        /\ prev.state = "HALF-OPEN" => ret = TRUE

\* C3 (as claimed): is_open() returns true only if the state is OPEN and
\* now - last_failure_time < timeout; a CLOSED breaker never blocks; once
\* now - last_failure_time >= timeout no is_open() returns true.
C3_BlocksOnlyInsideCooldown ==
    lastOp = "is_open" =>
        /\ ret = TRUE => (prev.state = "OPEN" /\ Elapsed(prev) < prev.timeout)
        /\ prev.state = "CLOSED" => ret = FALSE
        /\ Elapsed(prev) >= prev.timeout => ret = FALSE

\* C3 (amended): is_open() returns true only if the state is OPEN and
\* now - last_failure_time <= timeout; a CLOSED breaker never blocks; once
\* now - last_failure_time > timeout no is_open() returns true.
C3_BlocksUpToCooldown ==
    lastOp = "is_open" =>
        /\ ret = TRUE => (prev.state = "OPEN" /\ Elapsed(prev) <= prev.timeout)
        /\ prev.state = "CLOSED" => ret = FALSE
        /\ Elapsed(prev) > prev.timeout => ret = FALSE

C3_Witness ==
    /\ lastOp = "is_open"
    /\ ret = TRUE
    /\ prev.state = "OPEN"
    /\ Elapsed(prev) = prev.timeout

\* C4: from every reachable breaker state record_success() leaves
\* failures = 0 and state = CLOSED.
C4_SuccessResets ==
    lastOp = "record_success" =>
        /\ circuit_breaker.failures = 0
        /\ circuit_breaker.state = "CLOSED"

C4_Witness ==
    /\ lastOp = "record_success"
    /\ prev.state = "HALF-OPEN"
    /\ prev.failures > prev.threshold
    /\ circuit_breaker.state = "CLOSED"

-----------------------------------------------------------------------------
(* Claims about the solvers, checked under SpecSolve *)

\* the failure modes of a remote call
FailedResponse(r) ==
    \/ r.kind \in {"timeout", "exception", "bad_json"}
    \/ r.kind = "ok" /\ r.status_code # 200
    \/ r.kind = "ok" /\ r.status_code = 200 /\ r.errorId # 0
    \/ r.kind = "ok" /\ r.status_code = 200 /\ r.errorId = 0 /\ r.status # "ready"

\* the state right after a solve_image_to_text call
AfterRemoteCall == lastOp \in {"task_capsolver", "seq_capsolver"}

\* the validator accepts what the remote / the local strategy returned
RemoteAccepted ==
    /\ futures.capsolver.st = "done"
    /\ futures.capsolver.status = "SUCCESS"
    /\ validate_captcha_result(
           Str(_clean_ocr_result(futures.capsolver.code.s))).is_valid
LocalAccepted ==
    /\ futures.local.st = "done"
    /\ validate_captcha_result(futures.local.code).is_valid

\* the strategy solve() takes once the entry checks have passed
RaceMode == cfg.parallel /\ cfg.capsolver_enabled /\ cfg.ocr
RaceReturned == RaceMode /\ pc = "returned" /\ calls.local > 0
SeqReturned == ~RaceMode /\ pc = "returned" /\ calls.remote + calls.local > 0

\* C5: every remote call that fails (HTTP status other than 200, API error
\* payload, non-ready status, timeout, any exception) records one failure on
\* the breaker and returns no code with a status other than SUCCESS.
C5_FailureRecorded ==
    (AfterRemoteCall /\ FailedResponse(response)) =>
        /\ circuit_breaker.failures = prev.failures + 1
        /\ futures.capsolver.code = None
        /\ futures.capsolver.status # "SUCCESS"

C5_Witness ==
    /\ AfterRemoteCall
    /\ response.kind = "timeout"
    /\ prev.state = "OPEN"
    /\ circuit_breaker.state = "OPEN"
    /\ circuit_breaker.failures = prev.failures + 1

\* C6: when the remote solver returns a successful result that the validator
\* accepts, record_success() has been called for that call: the breaker is
\* CLOSED with failures = 0.
C6_SuccessRecorded ==
    (AfterRemoteCall /\ RemoteAccepted) =>
        /\ circuit_breaker.state = "CLOSED"
        /\ circuit_breaker.failures = 0

C6_Witness ==
    /\ AfterRemoteCall
    /\ RemoteAccepted
    /\ prev.state = "OPEN"
    /\ prev.failures > 0
    /\ circuit_breaker.state = "CLOSED"

\* C7: in race mode solve() returns an accepted result whenever one of the
\* two strategies produced one, whatever the completion order, and returns
\* ALL_FAILED exactly when neither result is accepted.
C7_RaceReturnsAccepted ==
    RaceReturned =>
        /\ (RemoteAccepted \/ LocalAccepted) <=> result.status # "ALL_FAILED"
        /\ result.status = "ALL_FAILED" => result.code = <<>>
        /\ result.status # "ALL_FAILED" =>
              /\ validate_captcha_result(Str(result.code)).is_valid
              /\ \/ RemoteAccepted
                    /\ result.code = _clean_ocr_result(futures.capsolver.code.s)
                 \/ LocalAccepted /\ result.code = futures.local.code.s

C7_Witness ==
    /\ RaceReturned
    /\ consumed = <<"local", "capsolver">>
    /\ ~LocalAccepted
    /\ RemoteAccepted
    /\ result.code = _clean_ocr_result(futures.capsolver.code.s)

\* C8 (as claimed): in race mode, when the first task to complete yields an
\* accepted result, solve() has returned with it: it does not wait for the
\* other task.
C8_ReturnsWithoutWaiting ==
    (lastOp = "race_next" /\ Len(consumed) = 1 /\ IsWinner(futures[consumed[1]]))
        => pc = "returned"

\* C9: in sequential mode the remote solver is called first and sends no
\* request while its circuit is open; an accepted remote result is returned
\* without calling the local solver; otherwise the local solver is called
\* once and solve() returns its accepted result or ALL_FAILED.
C9_SequentialFallback ==
    /\ (~RaceMode /\ calls.local > 0 /\ cfg.capsolver_enabled)
          => calls.remote = 1
    /\ (lastOp = "seq_capsolver" /\ ret = TRUE)
          => (calls.net = 0 /\ circuit_breaker = prev /\ pc = "seq_local")
    /\ (SeqReturned /\ RemoteAccepted)
          => /\ calls.local = 0
             /\ result.code = _clean_ocr_result(futures.capsolver.code.s)
             /\ result.status # "ALL_FAILED"
    /\ (SeqReturned /\ ~RemoteAccepted)
          => /\ calls.local = 1
             /\ IF LocalAccepted
                THEN /\ result.code = futures.local.code.s
                     /\ result.status = futures.local.status
                ELSE result = [code |-> <<>>, status |-> "ALL_FAILED"]

C9_Witness ==
    /\ SeqReturned
    /\ futures.capsolver.status = "CIRCUIT_OPEN"
    /\ calls = [remote |-> 1, net |-> 0, local |-> 1]
    /\ result.status = "VALID"

\* C10 (as claimed): every result solve() returns has a non-empty code if and
\* only if its status is VALID, AGING_7 or AGING_8.
C10_CodeIffAcceptedStatus ==
    pc = "returned" =>
        (result.code # <<>> <=> result.status \in {"VALID", "AGING_7", "AGING_8"})

\* C11 (as claimed): when the image is shorter than the pre-check threshold,
\* solve() returns status BLACK_DETECTED with an empty code, calls neither
\* solver and leaves the breaker as it was.  Stated for a solver whose
\* entry checks (manual mode, missing engine) let the pre-check run.
C11_BlackDetected ==
    (lastOp = "solve" /\ cfg.mode # "MANUAL" /\ cfg.ocr
        /\ detect_black_captcha(image)) =>
        /\ pc = "returned"
        /\ result = [code |-> <<>>, status |-> "BLACK_DETECTED"]
        /\ calls = NoCalls
        /\ futures = NoFutures

\* the statuses solve() returns
SolveStatuses ==
    {"MANUAL_REQUIRED", "NO_OCR", "BLACK_IMAGE", "SUCCESS", "CAPSOLVER",
     "VALID", "AGING_7", "AGING_8", "ALL_FAILED", "ERROR"}

\* C12: no exception raised inside the remote solver, the local solver or
\* the enhancement step leaves solve(): each is caught where it is raised
\* (status RAISED never appears), solve() goes on and returns a (code,
\* status) pair, and the remote solver turns each of its failure modes into
\* a status other than SUCCESS.
C12_NoExceptionEscapes ==
    /\ result.status # "RAISED"
    /\ futures.local.status # "RAISED"
    /\ futures.capsolver.status # "RAISED"
    /\ enhanced.bytes # "RAISED"
    /\ enhanced.outcome = "raised" => enhanced.bytes = "raw"
    /\ (AfterRemoteCall /\ FailedResponse(response)) =>
          futures.capsolver.status \in
              {"EXCEPTION", "HTTP_ERROR", "API_ERROR", "STATUS_NOT_READY"}
    /\ (lastOp = "seq_capsolver" /\ FailedResponse(response)) => pc = "seq_local"
    /\ (lastOp = "seq_local" /\ futures.local.status = "ERROR") =>
          (pc = "returned" /\ result = [code |-> <<>>, status |-> "ALL_FAILED"])
    /\ pc = "returned" =>
          (result.status \in SolveStatuses /\ result.code \in Seq(allowed_chars))

C12_Witness ==
    /\ lastOp = "seq_local"
    /\ pc = "returned"
    /\ enhanced.outcome = "raised"
    /\ response.kind = "exception"
    /\ futures.capsolver.status = "EXCEPTION"
    /\ futures.local.status = "ERROR"
    /\ result = [code |-> <<>>, status |-> "ALL_FAILED"]

\* C19 (as claimed): with the remote solver enabled and no local engine,
\* solve() takes the sequential path and calls the remote solver; NO_OCR is
\* returned only when neither strategy is available.
C19_RemoteOnly ==
    /\ (pc = "returned" /\ result.status = "NO_OCR") =>
          (~cfg.capsolver_enabled /\ ~cfg.ocr)
    /\ (pc = "returned" /\ cfg.mode # "MANUAL" /\ cfg.capsolver_enabled
           /\ ~cfg.ocr /\ ~detect_black_captcha(image)) => calls.remote = 1

-----------------------------------------------------------------------------
(* Claims about the retry / reload protocol, checked under SpecRetry *)

\* the retry call has returned without success, every reload acknowledged
RetryRejected ==
    /\ rpc = "returned"
    /\ lastOp # "init"
    /\ ~retry_ret.success
    /\ retry_ret.status # "RELOAD_FAILED"

C14_AcceptedEndsProtocol ==
    (accepted.set /\ counts.fill_errors = 0) =>
        /\ counts.solves = accepted.at.solves
        /\ counts.captures = accepted.at.captures
        /\ counts.reloads = accepted.at.reloads
        /\ counts.rounds = accepted.at.rounds
        /\ rpc = "returned" =>
              retry_ret = Ret(TRUE, Str(accepted.code), accepted.status)

\* C15 (as claimed): for every max_attempts >= 1, with session_age above the
\* ceiling a rejected retry call returns SESSION_TOO_OLD after its first
\* round and never MAX_ATTEMPTS_REACHED.
C15_TooOldAborts ==
    (RetryRejected /\ rargs.max_attempts >= 1
        /\ rargs.session_age > SessionAgeCeiling) =>
        /\ retry_ret = Ret(FALSE, None, "SESSION_TOO_OLD")
        /\ counts.rounds = 1

\* C15 (amended): that holds when the loop's limit is at least 2; with a
\* limit of 1 the single rejected round returns MAX_ATTEMPTS_REACHED.  A
\* session_age up to the ceiling never yields SESSION_TOO_OLD.
C15_TooOldAbortsBeforeLastAttempt ==
    /\ (RetryRejected /\ rloc.max_attempts >= 2
           /\ rargs.session_age > SessionAgeCeiling) =>
          /\ retry_ret = Ret(FALSE, None, "SESSION_TOO_OLD")
          /\ counts.rounds = 1
          /\ counts.reloads = 0
    /\ (RetryRejected /\ rloc.max_attempts = 1) =>
          retry_ret = Ret(FALSE, None, "MAX_ATTEMPTS_REACHED")
    /\ (rpc = "returned" /\ rargs.session_age <= SessionAgeCeiling) =>
          retry_ret.status # "SESSION_TOO_OLD"

C15_Witness ==
    /\ RetryRejected
    /\ rargs = [max_attempts |-> MaxAttemptsArg,
                session_age |-> SessionAgeCeiling + 1]
    /\ retry_ret.status = "SESSION_TOO_OLD"
    /\ counts.rounds = 1
    /\ counts.solves = 1

C18_NoEngineNotRetried ==
    counts.no_engine > 0 =>
        /\ counts.reloads = 0
        /\ counts.solves = 1
        /\ counts.rounds = 1

-----------------------------------------------------------------------------
(* Claims about the anti-abuse cooldown, checked under SpecMonth *)

\* C17 (as claimed): whenever the server has reported 5 submitted answers as
\* wrong in a row, with no accepted answer in between, the protocol takes
\* the cooldown before its next solve or submit attempt: it never goes on
\* to solve_from_page with such a run behind it.
C17_CooldownAfterFiveWrong ==
    mpc = "solve" => wrong_run < CooldownThreshold

-----------------------------------------------------------------------------
(* Claims about the session health monitor, checked under SpecSession *)

\* C20 (as claimed): when validate_session_health finds the session expired
\* (age above max_age or idle time above max_idle), it sets the health to
\* POISONED, whatever the level and the failure count were, and returns
\* False.
C20_ExpiryPoisons ==
    (lastOp = "validate_session_health" /\ is_expired(sprev, now)) =>
        /\ session.health = "POISONED"
        /\ vret = FALSE

\* the step just taken is a validate_session_health call
Validated == lastOp = "validate_session_health"

\* that call created exactly one incident, of type x
Appended(x) == incidents = Append(iprev, x)

\* the session had recorded a solved captcha and the page shows a captcha
DoubleChallenge == Validated /\ sprev.captcha_solved /\ vargs.has_captcha

C22_FalseWritesIncident ==
    Validated =>
        /\ ~vret => /\ \E x \in {"SESSION_EXPIRED", "SESSION_POISONED",
                                 "DOUBLE_CAPTCHA", "FORM_REJECTED"} : Appended(x)
                    /\ session.last_activity = sprev.last_activity
        /\ vret => /\ session.last_activity = now
                   /\ incidents = iprev

\* the health levels in order, CLEAN first
HealthLevel(h) ==
    IF h = "CLEAN" THEN 0
    ELSE IF h = "WARNING" THEN 1
    ELSE IF h = "DEGRADED" THEN 2
    ELSE 3

\* validate_session_health reached its structural rules (session not expired,
\* not to be terminated, no double captcha) and the marker was present
StructuralRejection ==
    /\ Validated
    /\ ~is_expired(sprev, now)
    /\ ~should_terminate(sprev)
    /\ ~(sprev.captcha_solved /\ vargs.has_captcha)
    /\ vargs.location \in {"POST_SUBMIT", "FORM"}
    /\ vargs.marker_present

\* C23 (as claimed): when validate_session_health runs after a submit or on
\* entering the form and the marker that should be gone is still present,
\* the health moves at least one level toward POISONED.
C23_StructuralRejectionDegrades ==
    StructuralRejection => HealthLevel(session.health) > HealthLevel(sprev.health)

\* C24 (as claimed): soft_recovery takes exactly one from failures, not
\* below 0, and moves the health exactly one level back toward CLEAN from
\* whatever level it has (a CLEAN session stays CLEAN).
C24_RecoversOneLevel ==
    lastOp = "soft_recovery" =>
        /\ session.failures = (IF sprev.failures > 0 THEN sprev.failures - 1 ELSE 0)
        /\ HealthLevel(session.health) =
              (IF sprev.health = "CLEAN" THEN 0 ELSE HealthLevel(sprev.health) - 1)

\* C24 (amended): soft_recovery takes exactly one from failures, not below
\* 0; it moves DEGRADED to WARNING and WARNING to CLEAN, and leaves CLEAN and
\* POISONED as they are.
C24_RecoversOneLevelUnlessPoisoned ==
    lastOp = "soft_recovery" =>
        /\ session.failures = (IF sprev.failures > 0 THEN sprev.failures - 1 ELSE 0)
        /\ HealthLevel(session.health) =
              (IF sprev.health \in {"CLEAN", "POISONED"}
               THEN HealthLevel(sprev.health)
               ELSE HealthLevel(sprev.health) - 1)

\* a DEGRADED session with two failures is soft-recovered
C24_Witness ==
    /\ lastOp = "soft_recovery"
    /\ sprev.health = "DEGRADED"
    /\ sprev.failures = 2
    /\ session.health = "WARNING"
    /\ session.failures = 1

\* C25 (as claimed): once the session has been expired (age above max_age or
\* idle time above max_idle), no later validate_session_health call on it
\* returns True.
C25_ExpiryIsTerminal ==
    (Validated /\ expired_before) => ~vret

-----------------------------------------------------------------------------
(* Claims about the pre-solve cache, checked under SpecCache *)

\* the cache has just been read, by get_pre_solved() or by solve_from_page
CacheRead == lastOp \in {"get_pre_solved", "solve_from_page"}

\* a pre_solve has cached a code and the cache has not been cleared since
StoredAndKept == stored.set /\ ~stored.cleared

\* C26: after pre_solve has cached a code (and with no clearing since),
\* get_pre_solved returns that code as long as its age is at most
\* PreSolveTimeout; once the age is above it, get_pre_solved returns None
\* and leaves no code in the cache; a cache that was never filled returns
\* None.
C26_CacheServesWithinTimeout ==
    /\ (lastOp = "get_pre_solved" /\ StoredAndKept) =>
          IF now - stored.time <= PreSolveTimeout
          THEN got = stored.code /\ pre_solved.code = stored.code
          ELSE got = None /\ pre_solved.code = None
    /\ (lastOp = "get_pre_solved" /\ ~stored.set) => got = None

\* a code is served at the age of exactly PreSolveTimeout
C26_Witness ==
    /\ lastOp = "get_pre_solved"
    /\ StoredAndKept
    /\ now - stored.time = PreSolveTimeout
    /\ Truthy(got)
    /\ got = stored.code

\* C27 (as claimed): a code read from the cache was pre-solved for the
\* captcha the page displays now.
C27_ServedForDisplayedChallenge ==
    (CacheRead /\ Truthy(got)) => stored.for = displayed

-----------------------------------------------------------------------------
(* Claims about breakers and concurrent sessions, checked under SpecWorkers *)

\* C28 (as claimed): what a session's worker finds in the breaker between
\* its own calls is what its own last call left there: no failure or success
\* recorded by another session's worker has changed it.
C28_OwnBreakerPerSession ==
    \A w \in Workers : wpc[w] = "idle" => WorkerBreaker(w) = wseen[w]

\* no worker is inside record_failure
AllReturned == \A w \in Workers : wpc[w] = "idle"

\* C29 (as claimed): when the workers have made n record_failure calls and
\* no record_success, and all calls have returned, failures = n, and the
\* breaker is OPEN if n >= threshold.
C29_NoLostFailure ==
    (AllReturned /\ successes = 0) =>
        /\ circuit_breaker.failures = issued
        /\ issued >= circuit_breaker.threshold => circuit_breaker.state = "OPEN"

-----------------------------------------------------------------------------
(* Claims about validate_captcha_result, checked under SpecValidate *)

\* validate_captcha_result has returned for a string of one or more
\* characters that are all the same
AllSameValidated ==
    /\ lastOp = "validate_captcha_result"
    /\ Len(vinput) >= 1
    /\ Cardinality(SeqRange(vinput)) = 1

Cleaned(s) == remove_spaces(strip(s))

\* validate_captcha_result has returned
ValidateReturned == lastOp = "validate_captcha_result"

\* a string of one or more characters that are all the same
AllSame(s) == Cardinality(SeqRange(s)) = 1

\* C31 (as claimed): for every string of 6 letters and digits,
\* validate_captcha_result returns (True, VALID).
C31_SixIsValid ==
    (/\ ValidateReturned
     /\ Len(vinput) = 6
     /\ SeqRange(vinput) \subseteq allowed_chars)
        => vout = [is_valid |-> TRUE, status |-> "VALID"]

\* C31 (amended): for every string of 6 letters and digits that are not all
\* the same character, validate_captcha_result returns (True, VALID); six
\* times the same character returns (False, BLACK_DETECTED).
C31_SixDistinctIsValid ==
    (/\ ValidateReturned
     /\ Len(vinput) = 6
     /\ SeqRange(vinput) \subseteq allowed_chars)
        => IF AllSame(vinput)
           THEN vout = [is_valid |-> FALSE, status |-> "BLACK_DETECTED"]
           ELSE vout = [is_valid |-> TRUE, status |-> "VALID"]

\* six letters and digits, not all the same, were accepted as VALID
C31_Witness ==
    /\ ValidateReturned
    /\ Len(vinput) = 6
    /\ SeqRange(vinput) = {"4", "a"}
    /\ vout = [is_valid |-> TRUE, status |-> "VALID"]

\* C32 (as claimed): for every string of length 7 validate_captcha_result
\* returns (True, AGING_7) and for every string of length 8 (True, AGING_8).
C32_SevenEightAreAging ==
    ValidateReturned =>
        /\ Len(vinput) = 7 => vout = [is_valid |-> TRUE, status |-> "AGING_7"]
        /\ Len(vinput) = 8 => vout = [is_valid |-> TRUE, status |-> "AGING_8"]

\* C32 (amended): the length is taken after stripping and removing spaces;
\* for every string whose cleaned form has 7 characters that are not all the
\* same validate_captcha_result returns (True, AGING_7), and with 8 such
\* characters (True, AGING_8); a cleaned form of 7 or 8 times the same
\* character returns (False, BLACK_DETECTED).
C32_CleanedSevenEightAreAging ==
    (ValidateReturned /\ Len(Cleaned(vinput)) \in {7, 8})
        => IF AllSame(Cleaned(vinput))
           THEN vout = [is_valid |-> FALSE, status |-> "BLACK_DETECTED"]
           ELSE IF Len(Cleaned(vinput)) = 7
           THEN vout = [is_valid |-> TRUE, status |-> "AGING_7"]
           ELSE vout = [is_valid |-> TRUE, status |-> "AGING_8"]

\* a string of 9 characters with a space inside was accepted as AGING_8
C32_Witness ==
    /\ ValidateReturned
    /\ Len(vinput) = 9
    /\ Len(Cleaned(vinput)) = 8
    /\ vout = [is_valid |-> TRUE, status |-> "AGING_8"]

\* C33 (as claimed): for every string of length 1 to 5 that is not one of
\* the listed black patterns, validate_captcha_result returns
\* (False, TOO_SHORT).
C33_ShortIsTooShort ==
    (/\ ValidateReturned
     /\ Len(vinput) \in 1..5
     /\ vinput \notin black_patterns)
        => vout = [is_valid |-> FALSE, status |-> "TOO_SHORT"]

\* C33 (amended): a string of length 1 to 5 is never accepted; it returns
\* (False, BLACK_DETECTED) when its cleaned form is a listed black pattern or
\* one character repeated (every string of one non-blank character is), and
\* (False, TOO_SHORT) otherwise, lengths 4 and 5 included.
C33_ShortIsRejected ==
    (ValidateReturned /\ Len(vinput) \in 1..5)
        => IF Cleaned(vinput) \in black_patterns \/ AllSame(Cleaned(vinput))
           THEN vout = [is_valid |-> FALSE, status |-> "BLACK_DETECTED"]
           ELSE vout = [is_valid |-> FALSE, status |-> "TOO_SHORT"]

\* five characters, two of them distinct, were rejected as TOO_SHORT
C33_Witness ==
    /\ ValidateReturned
    /\ Len(vinput) = 5
    /\ SeqRange(vinput) = {"4", "a"}
    /\ vout = [is_valid |-> FALSE, status |-> "TOO_SHORT"]

\* C34: every input that is empty after stripping whitespace, the empty
\* string and every whitespace-only string, returns (False, EMPTY).
C34_BlankIsEmpty ==
    (ValidateReturned /\ strip(vinput) = <<>>)
        => vout = [is_valid |-> FALSE, status |-> "EMPTY"]

-----------------------------------------------------------------------------
(* Further claims about the CircuitBreaker, checked under Spec *)

\* C37: a record_failure() on a HALF-OPEN breaker returns it to OPEN with
\* last_failure_time set to the time of that failure, and from then until
\* the next record_failure()/record_success() every is_open() called before
\* the cooldown has elapsed since that failure returns true.
C37_FailedProbeReopens ==
    /\ (lastOp = "record_failure" /\ prev.state = "HALF-OPEN")
        => /\ probe_failed
           /\ circuit_breaker.state = "OPEN"
           /\ circuit_breaker.last_failure_time = now
    /\ (probe_failed /\ Elapsed(circuit_breaker) <= circuit_breaker.timeout)
        => /\ circuit_breaker.state = "OPEN"
           /\ is_open(circuit_breaker, now).ret = TRUE
    /\ (lastOp = "is_open" /\ probe_failed /\ Elapsed(prev) < prev.timeout)
        => ret = TRUE

\* after a failed probe and one tick is_open() has blocked
C37_Witness ==
    /\ probe_failed
    /\ lastOp = "is_open"
    /\ ret = TRUE
    /\ circuit_breaker.state = "OPEN"
    /\ Elapsed(circuit_breaker) >= 1

-----------------------------------------------------------------------------
(* A further claim about the CapSolver call of solve(), checked under SpecSolve *)

\* the remote call answered with status ready
ReadyResponse(r) ==
    r.kind = "ok" /\ r.status_code = 200 /\ r.errorId = 0 /\ r.status = "ready"

\* C38: the breaker counts transport and API-level failures only: a remote
\* call answered with status ready leaves failures = 0 and the breaker
\* CLOSED whether or not the validator accepts the answer, failures grows
\* only in a remote call that failed, and the step of solve() that validates
\* a remote answer leaves the breaker as it is.
C38_OnlyRemoteFailuresCount ==
    [][/\ (lastOp' \in {"task_capsolver", "seq_capsolver"} /\ ReadyResponse(response'))
           => /\ circuit_breaker'.failures = 0
              /\ circuit_breaker'.state = "CLOSED"
       /\ circuit_breaker'.failures > circuit_breaker.failures
           => /\ lastOp' \in {"task_capsolver", "seq_capsolver"}
              /\ FailedResponse(response')
       /\ lastOp' = "race_next" => circuit_breaker' = circuit_breaker]_vars

\* a probe on a breaker that was OPEN was answered with a ready text that the
\* validator rejects, and the breaker is CLOSED with no failure counted
C38_Witness ==
    /\ AfterRemoteCall
    /\ ReadyResponse(response)
    /\ ~RemoteAccepted
    /\ prev.state = "OPEN"
    /\ prev.failures > 0
    /\ circuit_breaker.state = "CLOSED"
    /\ circuit_breaker.failures = 0

-----------------------------------------------------------------------------
(* A further claim about the retry / reload protocol, checked under SpecRetry *)

\* C35: once solve() has reported a black image (BLACK_IMAGE, image below
\* the size threshold) in a round, the retry call does not reload or retry
\* in place: that round ends without asking the operator, and the call
\* returns a failure without a reload and without another round.
C35_BlackEndsProtocol ==
    rloc.status = "BLACK_IMAGE" =>
        /\ rpc \in {"sfp_returned", "returned"}
        /\ rpc = "returned" =>
              /\ ~retry_ret.success
              /\ retry_ret.status # "RELOAD_FAILED"

-----------------------------------------------------------------------------
(* A further claim about the anti-abuse cooldown, checked under SpecMonth *)

\* C36: the cooldown is triggered by server-reported wrong answers only:
\* whenever time.sleep(120) has been called, the server had rejected 5
\* submitted answers in a row.
C36_CooldownOnlyAfterFiveWrong ==
    slept => run_at_sleep >= CooldownThreshold

-----------------------------------------------------------------------------
(* solve_booking_captcha_turbo called on a booking page, call after call *)

InitTurbo ==
    /\ now = 0
    /\ circuit_breaker = CircuitBreaker(SolveMaxThreshold, SolveMaxTimeout)
    /\ lastOp = "init"
    /\ ret = FALSE
    /\ prev = circuit_breaker
    /\ consec = 0
    /\ cfg = [mode |-> "AUTO", ocr |-> TRUE, capsolver_enabled |-> TRUE,
              parallel |-> FALSE]
    /\ pc = "idle"
    /\ image = 0
    /\ futures = NoFutures
    /\ consumed = <<>>
    /\ result = NoResult
    /\ calls = NoCalls
    /\ enhanced = NotEnhanced
    /\ response = NoResponse
    /\ rpc = "idle"
    /\ rargs = NoArgs
    /\ rloc = NoLocals
    /\ sfp_ret = NoRet
    /\ retry_ret = NoRet
    /\ counts = NoCounts
    /\ accepted = NotAccepted
    /\ mpc = "idle"
    /\ mloc = NoMonthLocals
    /\ page_state = "UNKNOWN"
    /\ wrong_run = 0
    /\ slept = FALSE
    /\ session = SessionState(0)
    /\ sprev = session
    /\ incidents = <<>>
    /\ vret = FALSE
    /\ iprev = <<>>
    /\ expired_before = FALSE
    /\ vargs = NoValidateArgs
    /\ pre_solved = NoPreSolved
    /\ got = None
    /\ displayed = 0
    /\ stored = NotStored
    /\ wpc = [w \in Workers |-> "idle"]
    /\ wtmp = [w \in Workers |-> 0]
    /\ wseen = [w \in Workers |-> circuit_breaker]
    /\ issued = 0
    /\ successes = 0
    /\ vinput = <<>>
    /\ vout = NotValidated
    /\ probe_failed = FALSE
    /\ run_at_sleep = 0
    /\ tpc = "idle"
    /\ tattempt = 0
    /\ tret = FALSE
    /\ tlast = NoIteration
    /\ tinjects = 0
    /\ tsubmits = 0
    /\ sniper = EliteSniperV2(AUTO, HYBRID)
    /\ sniper_prev = EliteSniperV2(AUTO, HYBRID)
    /\ set_arg = <<>>
    /\ set_ret = FALSE

\* a caller invokes solve_booking_captcha_turbo(page)
TurboCall ==
    /\ tpc \in {"idle", "returned"}
    /\ tpc' = "loop"
    /\ tattempt' = 0
    /\ tret' = FALSE
    /\ tlast' = NoIteration
    /\ tinjects' = 0
    /\ tsubmits' = 0
    /\ lastOp' = "solve_booking_captcha_turbo"
    /\ UNCHANGED <<now, cbVars, solveVars, retryVars, monthVars, sessionVars, cacheVars,
                   workerVars, validateVars, probeVars, coolVars, modeVars>>

\* one iteration of the loop, and the return it leads to if any
TurboIteration ==
    /\ tpc = "loop"
    /\ \E o \in TurboOutcomes :
          /\ tlast' = turbo_iteration(o)
          /\ tpc' = turbo_next(tattempt, turbo_iteration(o)).pc
          /\ tret' = turbo_next(tattempt, turbo_iteration(o)).ret
          /\ tinjects' = tinjects + IF turbo_iteration(o).injected THEN 1 ELSE 0
          /\ tsubmits' = tsubmits + IF turbo_iteration(o).submitted THEN 1 ELSE 0
    /\ tattempt' = tattempt + 1
    /\ lastOp' = "turbo_iteration"
    /\ UNCHANGED <<now, cbVars, solveVars, retryVars, monthVars, sessionVars, cacheVars,
                   workerVars, validateVars, probeVars, coolVars, modeVars>>

NextTurbo ==
    \/ TurboCall
    \/ TurboIteration

SpecTurbo == InitTurbo /\ [][NextTurbo]_vars

-----------------------------------------------------------------------------
(* An engine whose mode is switched through set_mode (Telegram C2) *)

InitMode ==
    /\ now = 0
    /\ circuit_breaker = CircuitBreaker(SolveMaxThreshold, SolveMaxTimeout)
    /\ lastOp = "init"
    /\ ret = FALSE
    /\ prev = circuit_breaker
    /\ consec = 0
    /\ cfg = [mode |-> "AUTO", ocr |-> TRUE, capsolver_enabled |-> TRUE,
              parallel |-> FALSE]
    /\ pc = "idle"
    /\ image = 0
    /\ futures = NoFutures
    /\ consumed = <<>>
    /\ result = NoResult
    /\ calls = NoCalls
    /\ enhanced = NotEnhanced
    /\ response = NoResponse
    /\ rpc = "idle"
    /\ rargs = NoArgs
    /\ rloc = NoLocals
    /\ sfp_ret = NoRet
    /\ retry_ret = NoRet
    /\ counts = NoCounts
    /\ accepted = NotAccepted
    /\ mpc = "idle"
    /\ mloc = NoMonthLocals
    /\ page_state = "UNKNOWN"
    /\ wrong_run = 0
    /\ slept = FALSE
    /\ session = SessionState(0)
    /\ sprev = session
    /\ incidents = <<>>
    /\ vret = FALSE
    /\ iprev = <<>>
    /\ expired_before = FALSE
    /\ vargs = NoValidateArgs
    /\ pre_solved = NoPreSolved
    /\ got = None
    /\ displayed = 0
    /\ stored = NotStored
    /\ wpc = [w \in Workers |-> "idle"]
    /\ wtmp = [w \in Workers |-> 0]
    /\ wseen = [w \in Workers |-> circuit_breaker]
    /\ issued = 0
    /\ successes = 0
    /\ vinput = <<>>
    /\ vout = NotValidated
    /\ probe_failed = FALSE
    /\ run_at_sleep = 0
    /\ tpc = "idle"
    /\ tattempt = 0
    /\ tret = FALSE
    /\ tlast = NoIteration
    /\ tinjects = 0
    /\ tsubmits = 0
    /\ sniper \in {EliteSniperV2(r, m) : r \in valid_modes, m \in valid_modes}
    /\ sniper_prev = sniper
    /\ set_arg = <<>>
    /\ set_ret = FALSE

\* the commander calls set_mode(new_mode)
CallSetMode ==
    /\ \E new_mode \in ModeNames :
          /\ sniper' = set_mode(sniper, new_mode).self
          /\ set_ret' = set_mode(sniper, new_mode).ret
          /\ set_arg' = new_mode
    /\ sniper_prev' = sniper
    /\ lastOp' = "set_mode"
    /\ UNCHANGED <<now, cbVars, solveVars, retryVars, monthVars, sessionVars, cacheVars,
                   workerVars, validateVars, probeVars, coolVars, turboVars>>

NextMode == CallSetMode

SpecMode == InitMode /\ [][NextMode]_vars

-----------------------------------------------------------------------------
(* A claim about solve_booking_captcha_turbo, checked under SpecTurbo *)

-----------------------------------------------------------------------------
(* A claim about set_mode, checked under SpecMode *)

\* C40: after any sequence of set_mode calls solver.manual_only holds iff
\* the mode is MANUAL and solver.auto_only holds iff the mode is AUTO; a
\* set_mode call with a name that is none of AUTO, MANUAL, HYBRID (in any
\* case) returns False and changes nothing.
C40_FlagsFollowMode ==
    /\ sniper.solver.manual_only <=> (sniper.mode = MANUAL)
    /\ sniper.solver.auto_only <=> (sniper.mode = AUTO)
    /\ (lastOp = "set_mode" /\ upper(set_arg) \notin valid_modes)
        => (set_ret = FALSE /\ sniper = sniper_prev)

=============================================================================
